---- MODULE Spec2Model ----
(***************************************************************************)
(* Model of the container state/interaction core of                        *)
(* draggable-resizable-container: ContainerManager (reactive state, the    *)
(* constraint resolver, the pointer handlers, destroy).                    *)
(*                                                                         *)
(* Reactive library (@alekstar79/reactive-event-system) as ContainerManager *)
(* uses it: effect(fn) runs fn at once and again after each write that      *)
(* changes a reactive field fn has read, and returns a disposer that stops  *)
(* it; emit(event, payload) runs the event's middleware and then delivers   *)
(* to the subscribers; destroy() of an emitter drops its subscribers.       *)
(***************************************************************************)
EXTENDS Integers, Sequences, FiniteSets, TLC

VARIABLES
    config,           \* this.config: boundaries, constrainToViewport, constrainToParent
    viewport,         \* window.innerWidth / innerHeight
    parentRect,       \* container.parentElement.getBoundingClientRect()
    reactiveState,    \* this.reactiveState: x, y, width, height, mode, draggingDirection
    isDragging,
    isResizing,
    resizeDirection,  \* a ResizeDirection or "null"
    startX,
    startY,
    startState,       \* snapshot taken at the start of a gesture
    docListeners,     \* document-level listeners, in the order they were added
    handleListeners,  \* listeners on the drag handle
    style,            \* container.style: left, top, width, height (px), zIndex
    effectActive,     \* domUpdateEffect has not been disposed
    emitterAlive,     \* eventEmitter has not been destroyed
    draggable,        \* State.draggable: the process-wide ordering sequence
    emitted,          \* lifecycle events delivered to subscribers by the last operation
    lastOp,           \* the name of the last operation invoked on the manager
    gestures,         \* number of gesture starts so far
    installedPlugins, \* this.installedPlugins, by class name
    persistence,      \* the StatePersistencePlugin instance and its static registries
    snapping,         \* the SnappingPlugin instance
    managers,         \* the managers sharing the ordering State, by _uid
    zIndexOf,         \* style.zIndex of each of their elements (0: not set)
    frontLog,         \* the _uids of the last two bringToFront() calls
    docking,          \* EdgeDockingPlugin with the static edge registry, and its containers
    edgeDocking,      \* EdgeDockingPlugin with per-instance occupiedEdges, and its containers
    closed,           \* the closed-container queue of StatePersistencePlugin and what backs it
    thrown,           \* the calls of the last operation that an exception left uncaught
    observers,        \* the ResizeObservers of the constructor and the pending animation frame
    loader            \* the TemplateLoader and the loadTemplate calls in flight

vars == << config, viewport, parentRect, reactiveState, isDragging, isResizing,
           resizeDirection, startX, startY, startState, docListeners, handleListeners,
           style, effectActive, emitterAlive, draggable, emitted, lastOp, gestures,
           installedPlugins, persistence, snapping, managers, zIndexOf, frontLog,
           docking, edgeDocking, closed, thrown, observers, loader >>

-----------------------------------------------------------------------------
(* Bounds of the model *)

\* gesture starts (onDragStart / onResizeStart that pass their guard) per behaviour
MaxGestures == 2

\* pointer positions of the events delivered to the handlers
PointerEvents ==
    { [clientX |-> 0, clientY |-> 0],
      [clientX |-> 150, clientY |-> 150] }

\* directions of the resize handles the pointer can start a resize on
ResizeInputs == {"se", "nw"}

-----------------------------------------------------------------------------
(* Program constants *)

\* Number.POSITIVE_INFINITY of `boundaries.maxWidth || Infinity`: above every size of the model
Infinity == 1000000

\* `boundaries.minWidth || 10`, `boundaries.minHeight || 10`
DefaultMin == 10

\* State.highestZIndex
highestZIndex == 1000

MovementModes == {"smooth", "pinned"}
DirectionModes == {"all", "horizontal", "vertical"}
ResizeDirections == {"n", "s", "e", "w", "ne", "nw", "se", "sw"}
GeometryKeys == {"x", "y", "width", "height"}

\* config._uid of the modelled manager
Uid == "c1"

-----------------------------------------------------------------------------
(* helpers.ts *)

Min(a, b) == IF a <= b THEN a ELSE b
Max(a, b) == IF a >= b THEN a ELSE b

\* Math.min(Math.max(value, min), max)
clamp(value, min, max) == Min(Max(value, min), max)

Range(seq) == { seq[i] : i \in 1..Len(seq) }

\* Math.abs
Abs(n) == IF n >= 0 THEN n ELSE -n

\* JavaScript `obj[key] || dflt`: an absent key and 0 both give dflt
OrDefault(obj, key, dflt) ==
    IF key \in DOMAIN obj /\ obj[key] # 0 THEN obj[key] ELSE dflt

\* JavaScript `obj[key] ?? dflt`: only an absent key gives dflt
NullishDefault(obj, key, dflt) ==
    IF key \in DOMAIN obj THEN obj[key] ELSE dflt

\* the geometry part {x, y, width, height} of a record
Geometry(s) == [x |-> s.x, y |-> s.y, width |-> s.width, height |-> s.height]

-----------------------------------------------------------------------------
(* The constraint resolver: ContainerManager.constrainedState *)

shouldConstrainToViewport(cfg) == ~cfg.constrainToParent \/ cfg.constrainToViewport

\* config.autoAdjust, with the constructor's default for a configuration without it
autoAdjustOf(cfg) ==
    IF "autoAdjust" \in DOMAIN cfg THEN cfg.autoAdjust
    ELSE [enabled |-> FALSE, width |-> FALSE, height |-> FALSE]

\* setupResizeObservers: which observers the constructor sets up.  bodyNotified and
\* parentNotified: the observed element changed its size and the callback has not run;
\* rAFTimeout: a requestAnimationFrame callback is pending; corrections: the runs of
\* handleViewportResize and handleParentResize since the last animation frame began
\* that changed the state
observersOf(cfg) ==
    [viewport |-> shouldConstrainToViewport(cfg),
     parent |-> autoAdjustOf(cfg).enabled,
     bodyNotified |-> FALSE, parentNotified |-> FALSE, rAFTimeout |-> FALSE,
     corrections |-> [viewport |-> 0, parent |-> 0]]

constrainToParent(state, pr) ==
    IF pr.width = 0 \/ pr.height = 0
    THEN state
    ELSE LET maxX == Max(0, pr.width - state.width)
             maxY == Max(0, pr.height - state.height)
             maxWidth == pr.width - state.x
             maxHeight == pr.height - state.y
         IN  [x |-> clamp(state.x, 0, maxX),
              y |-> clamp(state.y, 0, maxY),
              width |-> clamp(state.width, 0, maxWidth),
              height |-> clamp(state.height, 0, maxHeight)]

constrainedState(state, cfg, vp, pr) ==
    LET b == cfg.boundaries
        w1 == clamp(state.width, OrDefault(b, "minWidth", DefaultMin),
                                 OrDefault(b, "maxWidth", Infinity))
        h1 == clamp(state.height, OrDefault(b, "minHeight", DefaultMin),
                                  OrDefault(b, "maxHeight", Infinity))
        c0 == [x |-> state.x, y |-> state.y, width |-> w1, height |-> h1]
        c1 == IF shouldConstrainToViewport(cfg)
              THEN [c0 EXCEPT !.x = clamp(state.x, 0, vp.width - w1),
                              !.y = clamp(state.y, 0, vp.height - h1)]
              ELSE c0
    IN  IF cfg.constrainToParent THEN constrainToParent(c1, pr) ELSE c1

\* the resolver on the manager's current raw state and environment
Resolved == constrainedState(Geometry(reactiveState), config, viewport, parentRect)

-----------------------------------------------------------------------------
(* The manager's mutable state as one record, so that the handlers compose *)
(* (a document event runs every listener attached for it, in order).       *)

World ==
    [reactiveState |-> reactiveState, isDragging |-> isDragging,
     isResizing |-> isResizing, resizeDirection |-> resizeDirection,
     startX |-> startX, startY |-> startY, startState |-> startState,
     docListeners |-> docListeners, handleListeners |-> handleListeners,
     style |-> style, effectActive |-> effectActive, emitterAlive |-> emitterAlive,
     draggable |-> draggable, emitted |-> << >>,
     installedPlugins |-> installedPlugins,
     persistence |-> [persistence EXCEPT !.writes = 0],
     snapping |-> snapping, thrown |-> << >>, observers |-> observers]

Commit(w) ==
    /\ reactiveState' = w.reactiveState
    /\ isDragging' = w.isDragging
    /\ isResizing' = w.isResizing
    /\ resizeDirection' = w.resizeDirection
    /\ startX' = w.startX
    /\ startY' = w.startY
    /\ startState' = w.startState
    /\ docListeners' = w.docListeners
    /\ handleListeners' = w.handleListeners
    /\ style' = w.style
    /\ effectActive' = w.effectActive
    /\ emitterAlive' = w.emitterAlive
    /\ draggable' = w.draggable
    /\ emitted' = w.emitted
    /\ installedPlugins' = w.installedPlugins
    /\ persistence' = w.persistence
    /\ snapping' = w.snapping
    /\ thrown' = w.thrown
    /\ observers' = w.observers
    /\ UNCHANGED << config, viewport, parentRect, managers, zIndexOf, frontLog,
                    docking, edgeDocking, closed, loader >>

-----------------------------------------------------------------------------
(* StatePersistencePlugin: saving *)

\* no record saved
NoRecords == [k \in {} |-> 0]

\* a mutant of saveState: the snapshot of the gesture's start is stored
saveState_startState(w) ==
    LET p == w.persistence
    IN  IF ~p.manager \/ p.containerId = "none" \/ ~p.isDemoContainer THEN w
        ELSE LET savedState == [x |-> w.startState.x, y |-> w.startState.y,
                                width |-> w.startState.width,
                                height |-> w.startState.height,
                                mode |-> w.reactiveState.mode,
                                draggingDirection |-> w.reactiveState.draggingDirection,
                                isClosed |-> FALSE]
             IN  [w EXCEPT !.persistence.containerStates = (p.containerId :> savedState) @@ @,
                           !.persistence.storage = (p.containerId :> savedState) @@ @,
                           !.persistence.writes = @ + 1]

\* saveState: the manager's state, mode and direction are stored under the container id,
\* in the plugin's reactive containerStates and in localStorage; demo containers only
saveState(w) ==
    LET p == w.persistence
    IN  IF ~p.manager \/ p.containerId = "none" \/ ~p.isDemoContainer THEN w
        ELSE LET savedState == [x |-> w.reactiveState.x, y |-> w.reactiveState.y,
                                width |-> w.reactiveState.width,
                                height |-> w.reactiveState.height,
                                mode |-> w.reactiveState.mode,
                                draggingDirection |-> w.reactiveState.draggingDirection,
                                isClosed |-> FALSE]
             IN  IF p.quotaExceeded
                 THEN [w EXCEPT !.persistence.containerStates =
                                    (p.containerId :> savedState) @@ @,
                                !.thrown = Append(@, "saveState")]
                 ELSE [w EXCEPT !.persistence.containerStates =
                                    (p.containerId :> savedState) @@ @,
                                !.persistence.storage = (p.containerId :> savedState) @@ @,
                                !.persistence.writes = @ + 1]

\* saveAllContainers: the stored records, with those of the registered demo containers
\* that are open replaced by their managers' states, become the reactive records and are
\* written to localStorage
saveAllContainers(w) ==
    LET p == w.persistence
        open == { p.containers[i].containerId :
                    i \in { j \in 1..Len(p.containers) : p.containers[j].isDemo } }
        savedState == [x |-> w.reactiveState.x, y |-> w.reactiveState.y,
                       width |-> w.reactiveState.width,
                       height |-> w.reactiveState.height,
                       mode |-> w.reactiveState.mode,
                       draggingDirection |-> w.reactiveState.draggingDirection,
                       isClosed |-> FALSE]
        allStates == [id \in open |-> savedState] @@ p.storage
    IN  IF p.quotaExceeded
        THEN [w EXCEPT !.persistence.containerStates = allStates,
                       !.thrown = Append(@, "saveAllContainers")]
        ELSE [w EXCEPT !.persistence.containerStates = allStates,
                       !.persistence.storage = allStates,
                       !.persistence.writes = @ + 1]

\* getContainerState(id): the reactive record, else the stored one, else null; the
\* result is a one-element sequence, << >> for null
getContainerState(p, containerId) ==
    IF containerId \in DOMAIN p.containerStates THEN << p.containerStates[containerId] >>
    ELSE IF containerId \in DOMAIN p.storage THEN << p.storage[containerId] >>
    ELSE << >>

\* the plugin's subscribers on the manager's emitters (bindContainerEvents)
persistenceListens(w) == w.persistence.bound /\ w.persistence.isDemoContainer

\* pluginEventEmitter.emit(event, ...): delivery to the subscribers of a live emitter
emitPluginEvent(w, event) ==
    IF ~w.emitterAlive THEN w
    ELSE IF event \in {"maximizeChanged", "directionChanged"} /\ persistenceListens(w)
         THEN saveState(w)
         ELSE w

-----------------------------------------------------------------------------
(* Event bus and reactive effect *)

\* the dragStart middleware of setupEventMiddleware throws in pinned mode: no delivery
dragStartMiddlewarePasses(w) == w.reactiveState.mode # "pinned"

\* eventEmitter.emit(event, ...): delivery to the subscribers of a live emitter
emit(w, event) ==
    IF ~w.emitterAlive THEN w
    ELSE IF event = "dragStart" /\ ~dragStartMiddlewarePasses(w) THEN w
    ELSE LET w1 == [w EXCEPT !.emitted = Append(@, event)]
         IN  IF event \in {"dragEnd", "resizeEnd"} /\ persistenceListens(w1)
             THEN saveState(w1)
             ELSE w1

\* domUpdateEffect: write the constrained state to the element, emit stateChange
domUpdateEffect(w) ==
    IF ~w.effectActive THEN w
    ELSE LET c == constrainedState(Geometry(w.reactiveState), config, viewport, parentRect)
         IN  emit([w EXCEPT !.style = [@ EXCEPT !.left = c.x, !.top = c.y,
                                                !.width = c.width, !.height = c.height]],
                  "stateChange")

\* a mutant of autoSaveEffect: the save is not debounced
autoSaveEffect_immediate(w) ==
    IF w.persistence.autoSaveEffect THEN saveState(w) ELSE w

\* the persistence plugin's autoSaveEffect: (re)starts the debounce timer of the save
autoSaveEffect(w) ==
    IF w.persistence.autoSaveEffect THEN [w EXCEPT !.persistence.debouncePending = TRUE]
    ELSE w

\* an assignment to a field of this.reactiveState: a changed value re-runs the effects
writeReactive(w, key, value) ==
    IF w.reactiveState[key] = value THEN w
    ELSE autoSaveEffect(domUpdateEffect([w EXCEPT !.reactiveState[key] = value]))

-----------------------------------------------------------------------------
(* Public state accessors *)

getState(w) == Geometry(w.reactiveState)

\* setState(partial): the fields given are written in the order height, width, x, y
setState(w, partial) ==
    LET w1 == IF "height" \in DOMAIN partial
              THEN writeReactive(w, "height", partial.height) ELSE w
        w2 == IF "width" \in DOMAIN partial
              THEN writeReactive(w1, "width", partial.width) ELSE w1
        w3 == IF "x" \in DOMAIN partial
              THEN writeReactive(w2, "x", partial.x) ELSE w2
    IN  IF "y" \in DOMAIN partial THEN writeReactive(w3, "y", partial.y) ELSE w3

setMode(w, mode) == emit(writeReactive(w, "mode", mode), "modeChange")

setDirection(w, direction) ==
    emitPluginEvent(writeReactive(w, "draggingDirection", direction), "directionChanged")

-----------------------------------------------------------------------------
(* Ordering (z-index) *)

\* State.sort(uid): uid moves behind every other id
sortDraggable(d, uid) ==
    SelectSeq(d, LAMBDA id : id # uid) \o SelectSeq(d, LAMBDA id : id = uid)

\* Array.prototype.findIndex: 0-based, -1 when absent
findIndex(d, uid) ==
    IF \E i \in 1..Len(d) : d[i] = uid
    THEN (CHOOSE i \in 1..Len(d) : d[i] = uid /\ \A j \in 1..(i - 1) : d[j] # uid) - 1
    ELSE -1

bringToFront(w) ==
    LET d == sortDraggable(w.draggable, Uid)
    IN  [w EXCEPT !.draggable = d, !.style.zIndex = highestZIndex + findIndex(d, Uid)]

-----------------------------------------------------------------------------
(* Listener lists *)

\* addEventListener: a (type, listener) pair already present is not added again
addEventListener(ls, type, handler) ==
    IF \E i \in 1..Len(ls) : ls[i] = << type, handler >> THEN ls
    ELSE Append(ls, << type, handler >>)

removeEventListener(ls, type, handler) ==
    SelectSeq(ls, LAMBDA l : l # << type, handler >>)

-----------------------------------------------------------------------------
(* Pointer interaction state machine *)

\* a mutant of directionResolver: the two locks are swapped
directionResolver_swapped(w, x, y) ==
    LET direction == w.reactiveState.draggingDirection
        lockX == direction = "horizontal"
        lockY == direction = "vertical"
    IN  [clientX |-> IF lockX THEN w.startX ELSE x,
         clientY |-> IF lockY THEN w.startY ELSE y]

\* directionResolver(x, y): the locked axis reports the start coordinate
directionResolver(w, x, y) ==
    LET direction == w.reactiveState.draggingDirection
        lockX == direction = "vertical"
        lockY == direction = "horizontal"
    IN  [clientX |-> IF lockX THEN w.startX ELSE x,
         clientY |-> IF lockY THEN w.startY ELSE y]

\* a mutant of applyMovementMode: the delta is added to the current state
applyMovementMode_fromCurrent(w, deltaX, deltaY) ==
    IF w.reactiveState.mode = "smooth"
    THEN [w.startState EXCEPT !.x = w.reactiveState.x + deltaX,
                              !.y = w.reactiveState.y + deltaY]
    ELSE w.startState

\* applyMovementMode: in smooth mode the start snapshot moved by the deltas, else the
\* start snapshot
applyMovementMode(w, deltaX, deltaY) ==
    IF w.reactiveState.mode = "smooth"
    THEN [w.startState EXCEPT !.x = w.startState.x + deltaX,
                              !.y = w.startState.y + deltaY]
    ELSE w.startState

\* the delta-to-state mapping of the eight directions, on the start snapshot s
resizedFrom(s, deltaX, deltaY, direction) ==
    CASE direction = "e"  -> [s EXCEPT !.width = s.width + deltaX]
      [] direction = "w"  -> [s EXCEPT !.width = s.width - deltaX, !.x = s.x + deltaX]
      [] direction = "n"  -> [s EXCEPT !.height = s.height - deltaY, !.y = s.y + deltaY]
      [] direction = "s"  -> [s EXCEPT !.height = s.height + deltaY]
      [] direction = "ne" -> [s EXCEPT !.width = s.width + deltaX,
                                       !.height = s.height - deltaY,
                                       !.y = s.y + deltaY]
      [] direction = "nw" -> [s EXCEPT !.width = s.width - deltaX,
                                       !.height = s.height - deltaY,
                                       !.x = s.x + deltaX,
                                       !.y = s.y + deltaY]
      [] direction = "se" -> [s EXCEPT !.width = s.width + deltaX,
                                       !.height = s.height + deltaY]
      [] direction = "sw" -> [s EXCEPT !.width = s.width - deltaX,
                                       !.height = s.height + deltaY,
                                       !.x = s.x + deltaX]
      [] OTHER -> s

\* a mutant of calculateResizeState: the se case also moves x and y, like nw
calculateResizeState_seMoves(w, deltaX, deltaY, direction) ==
    LET r == resizedFrom(w.startState, deltaX, deltaY, direction)
    IN  IF direction = "se" THEN [r EXCEPT !.x = r.x + deltaX, !.y = r.y + deltaY] ELSE r

calculateResizeState(w, deltaX, deltaY, direction) ==
    resizedFrom(w.startState, deltaX, deltaY, direction)

addDragListeners(ls) ==
    addEventListener(addEventListener(addEventListener(addEventListener(ls,
        "mousemove", "onDragMove"), "mouseup", "onDragEnd"),
        "touchmove", "onDragMove"), "touchend", "onDragEnd")

removeDragListeners(ls) ==
    removeEventListener(removeEventListener(removeEventListener(removeEventListener(ls,
        "mousemove", "onDragMove"), "mouseup", "onDragEnd"),
        "touchmove", "onDragMove"), "touchend", "onDragEnd")

addResizeListeners(ls) ==
    addEventListener(addEventListener(addEventListener(addEventListener(ls,
        "mousemove", "onResizeMove"), "mouseup", "onResizeEnd"),
        "touchmove", "onResizeMove"), "touchend", "onResizeEnd")

removeResizeListeners(ls) ==
    removeEventListener(removeEventListener(removeEventListener(removeEventListener(ls,
        "mousemove", "onResizeMove"), "mouseup", "onResizeEnd"),
        "touchmove", "onResizeMove"), "touchend", "onResizeEnd")

\* a mutant of onDragStart: the pinned-mode guard is missing
onDragStart_noPinnedGuard(w, e) ==
    LET w1 == bringToFront(w)
        w2 == [w1 EXCEPT !.isDragging = TRUE,
                         !.startX = e.clientX,
                         !.startY = e.clientY,
                         !.startState = getState(w1)]
        w3 == emit(w2, "dragStart")
    IN  [w3 EXCEPT !.docListeners = addDragListeners(@)]

onDragStart(w, e) ==
    IF w.reactiveState.mode = "pinned" THEN w
    ELSE LET w1 == bringToFront(w)
             w2 == [w1 EXCEPT !.isDragging = TRUE,
                              !.startX = e.clientX,
                              !.startY = e.clientY,
                              !.startState = getState(w1)]
             w3 == emit(w2, "dragStart")
         IN  [w3 EXCEPT !.docListeners = addDragListeners(@)]

onDragMove(w, e) ==
    IF ~w.isDragging THEN w
    ELSE LET r == directionResolver(w, e.clientX, e.clientY)
             deltaX == r.clientX - w.startX
             deltaY == r.clientY - w.startY
             newState == applyMovementMode(w, deltaX, deltaY)
         IN  emit(setState(w, newState), "drag")

onDragEnd(w) ==
    emit([w EXCEPT !.isDragging = FALSE,
                   !.docListeners = removeDragListeners(@)], "dragEnd")

onResizeStart(w, e, direction) ==
    LET w1 == bringToFront(w)
        w2 == [w1 EXCEPT !.isResizing = TRUE,
                         !.resizeDirection = direction,
                         !.startX = e.clientX,
                         !.startY = e.clientY,
                         !.startState = getState(w1),
                         !.docListeners = addResizeListeners(@)]
    IN  emit(w2, "resizeStart")

onResizeMove(w, e) ==
    IF ~w.isResizing \/ w.resizeDirection = "null" THEN w
    ELSE LET deltaX == e.clientX - w.startX
             deltaY == e.clientY - w.startY
             newState == calculateResizeState(w, deltaX, deltaY, w.resizeDirection)
         IN  emit(setState(w, newState), "resize")

onResizeEnd(w) ==
    emit([w EXCEPT !.isResizing = FALSE,
                   !.resizeDirection = "null",
                   !.docListeners = removeResizeListeners(@)], "resizeEnd")

\* a mutant of destroy: domUpdateEffect is not disposed
destroy_keepsEffect(w) ==
    [w EXCEPT !.emitterAlive = FALSE,
              !.handleListeners = @ \ {"mousedown", "touchstart", "contextmenu"},
              !.installedPlugins = {},
              !.draggable = SelectSeq(@, LAMBDA id : id # Uid),
              !.observers.viewport = FALSE,
              !.observers.parent = FALSE]

\* destroy(): the effect and the emitters are disposed, the drag handle's listeners
\* removed, the ordering slot released; the document's listeners are not touched
destroy(w) ==
    [w EXCEPT !.emitterAlive = FALSE,
              !.effectActive = FALSE,
              !.handleListeners = @ \ {"mousedown", "touchstart", "contextmenu"},
              !.installedPlugins = {},
              !.draggable = SelectSeq(@, LAMBDA id : id # Uid),
              !.observers.viewport = FALSE,
              !.observers.parent = FALSE]

-----------------------------------------------------------------------------
(* Plugins: installation, StatePersistencePlugin, SnappingPlugin *)

\* StatePersistencePlugin.install(manager, {containerId, isDemo}): without a container id
\* nothing is registered; a demo container gets the auto-save effect, which runs at once
persistenceInstall(w, options) ==
    LET w1 == [w EXCEPT !.persistence.manager = TRUE,
                        !.persistence.containerId = options.containerId,
                        !.persistence.isDemoContainer = options.isDemo]
    IN  IF options.containerId = "none" THEN w1
        ELSE LET w2 == [w1 EXCEPT
                          !.persistence.containers =
                              Append(@, [containerId |-> options.containerId,
                                         isDemo |-> options.isDemo]),
                          !.persistence.demoContainers =
                              IF options.isDemo
                                 /\ ~\E i \in 1..Len(@) : @[i] = options.containerId
                              THEN Append(@, options.containerId) ELSE @,
                          !.persistence.bound = TRUE]
             IN  IF options.isDemo
                 THEN autoSaveEffect([w2 EXCEPT !.persistence.autoSaveEffect = TRUE])
                 ELSE w2

\* StatePersistencePlugin.destroy(): the effect is disposed and the container untracked
persistenceDestroy(w) ==
    LET p == w.persistence
    IN  [w EXCEPT !.persistence.autoSaveEffect = FALSE,
                  !.persistence.containers =
                      IF p.containerId # "none"
                      THEN SelectSeq(@, LAMBDA c : c.containerId # p.containerId)
                      ELSE @]

\* SnappingPlugin.install(manager, options): the plugin's onDragStart becomes the drag
\* handle's onmousedown / ontouchstart
snappingInstall(w, options) ==
    [w EXCEPT !.snapping.manager = TRUE,
              !.snapping.snapStep = options.snapStep,
              !.snapping.enabled = options.enabled]

\* plugin.install(manager, options) of the plugins a host installs: the manager as the
\* call leaves it, and whether the call threw.  "ThrowingPlugin" is a plugin of the host
\* whose install throws, at once or after a manager.setMode(options.mode)
install(w, plugin, options) ==
    CASE plugin = "StatePersistencePlugin" ->
             [w |-> persistenceInstall(w, options), threw |-> FALSE]
      [] plugin = "SnappingPlugin" ->
             [w |-> snappingInstall(w, options), threw |-> FALSE]
      [] plugin = "ThrowingPlugin" ->
             [w |-> IF options.mode = "none" THEN w
                    ELSE writeReactive(w, "mode", options.mode),
              threw |-> TRUE]

\* a mutant of use: a plugin that is installed already is installed again
use_noGuard(w, plugin, options) ==
    LET r == install(w, plugin, options)
    IN  IF r.threw THEN r.w
        ELSE [r.w EXCEPT !.installedPlugins = @ \cup {plugin}]

\* a mutant of use: the plugin is added to the set before its install runs
use_addsFirst(w, plugin, options) ==
    IF plugin \in w.installedPlugins THEN w
    ELSE LET r == install([w EXCEPT !.installedPlugins = @ \cup {plugin}], plugin, options)
         IN  r.w

\* manager.use(plugin, options): an installed plugin is not installed again; an install
\* that throws is caught and logged and the plugin is not added
use(w, plugin, options) ==
    IF plugin \in w.installedPlugins THEN w
    ELSE LET r == install(w, plugin, options)
         IN  IF r.threw THEN r.w
             ELSE [r.w EXCEPT !.installedPlugins = @ \cup {plugin}]

\* a mutant of snapToGrid: the quotient is truncated downwards instead of rounded
snapToGrid_floor(value, step) == (value \div step) * step

\* snapToGrid: Math.round(value / step) * step, for a positive step
snapToGrid(value, step) == ((2 * value + step) \div (2 * step)) * step

\* SnappingPlugin.onDragStart
snappingOnDragStart(w, e) ==
    IF ~w.snapping.manager \/ w.reactiveState.mode = "pinned" THEN w
    ELSE LET w1 == bringToFront(w)
             w2 == [w1 EXCEPT !.snapping.isActive = TRUE,
                              !.snapping.startX = e.clientX,
                              !.snapping.startY = e.clientY,
                              !.snapping.startState = << getState(w1) >>,
                              !.snapping.lastPosition =
                                  << [x |-> w1.reactiveState.x, y |-> w1.reactiveState.y] >>,
                              !.docListeners =
                                  addEventListener(
                                    addEventListener(
                                      addEventListener(
                                        addEventListener(@, "mousemove", "snapping.onDragMove"),
                                        "mouseup", "snapping.onDragEnd"),
                                      "touchmove", "snapping.onDragMove"),
                                    "touchend", "snapping.onDragEnd")]
         IN  emitPluginEvent(w2, "dragStart")

\* SnappingPlugin.onDragMove
snappingOnDragMove(w, e) ==
    IF ~w.snapping.isActive \/ ~w.snapping.manager \/ w.snapping.startState = << >> THEN w
    ELSE LET r == directionResolver(w, e.clientX, e.clientY)
             rawX == r.clientX - w.snapping.startX
             rawY == r.clientY - w.snapping.startY
             deltaX == IF w.snapping.enabled THEN snapToGrid(rawX, w.snapping.snapStep)
                       ELSE rawX
             deltaY == IF w.snapping.enabled THEN snapToGrid(rawY, w.snapping.snapStep)
                       ELSE rawY
             s == w.snapping.startState[1]
             moved == [x |-> s.x + deltaX, y |-> s.y + deltaY,
                       width |-> s.width, height |-> s.height]
             newState == IF config.constrainToViewport
                         THEN [moved EXCEPT
                                 !.x = Max(0, Min(moved.x, viewport.width - moved.width)),
                                 !.y = Max(0, Min(moved.y, viewport.height - moved.height))]
                         ELSE moved
             w1 == setState(w, newState)
             w2 == [w1 EXCEPT !.snapping.lastPosition =
                                  << [x |-> newState.x, y |-> newState.y] >>]
         IN  emitPluginEvent(w2, "drag")

\* SnappingPlugin.onDragEnd
snappingOnDragEnd(w) ==
    IF ~w.snapping.manager THEN w
    ELSE emitPluginEvent(
           [w EXCEPT !.snapping.isActive = FALSE,
                     !.snapping.lastPosition = << >>,
                     !.snapping.startState = << >>,
                     !.docListeners =
                         removeEventListener(
                           removeEventListener(
                             removeEventListener(
                               removeEventListener(@, "mousemove", "snapping.onDragMove"),
                               "mouseup", "snapping.onDragEnd"),
                             "touchmove", "snapping.onDragMove"),
                           "touchend", "snapping.onDragEnd")],
           "dragEnd")

\* one listener of the document called with event e
\* the handlers bindEvents binds, and the names of the functions an earlier bindEvents
\* bound: this.onDragMove = this.onDragMove.bind(this) makes a new function each time
BoundBefore ==
    [onDragMove |-> "onDragMove, bound before", onDragEnd |-> "onDragEnd, bound before",
     onResizeMove |-> "onResizeMove, bound before",
     onResizeEnd |-> "onResizeEnd, bound before"]

\* bindEvents: the six handlers are bound anew, so the listeners attached to the document
\* are functions bound before; the drag handle gets the start handler (unless the snapping
\* plugin is installed) and the context-menu handler
bindEvents(w) ==
    [w EXCEPT !.docListeners =
                  [i \in 1..Len(@) |->
                      IF @[i][2] \in DOMAIN BoundBefore
                      THEN << @[i][1], BoundBefore[@[i][2]] >> ELSE @[i]],
              !.handleListeners =
                  @ \cup (IF "SnappingPlugin" \in w.installedPlugins THEN {"contextmenu"}
                          ELSE {"mousedown", "touchstart", "contextmenu"})]

\* setResizeConfig(config): enabled is config.resize.enabled after the merge; the resize
\* handles are replaced and, if resizing is enabled, the events bound again
setResizeConfig(w, enabled) == IF enabled THEN bindEvents(w) ELSE w

callListener(w, handler, e) ==
    CASE handler \in {"onDragMove", BoundBefore.onDragMove}     -> onDragMove(w, e)
      [] handler \in {"onDragEnd", BoundBefore.onDragEnd}       -> onDragEnd(w)
      [] handler \in {"onResizeMove", BoundBefore.onResizeMove} -> onResizeMove(w, e)
      [] handler \in {"onResizeEnd", BoundBefore.onResizeEnd}   -> onResizeEnd(w)
      [] handler = "snapping.onDragMove" -> snappingOnDragMove(w, e)
      [] handler = "snapping.onDragEnd"  -> snappingOnDragEnd(w)
      [] OTHER -> w

\* the handlers attached to the document for an event type, in the order added
listenersFor(ls, type) ==
    LET sel == SelectSeq(ls, LAMBDA l : l[1] = type)
    IN  [i \in 1..Len(sel) |-> sel[i][2]]

RECURSIVE dispatch(_, _, _)
\* dispatchEvent: the listeners attached when the event is dispatched run in order
dispatch(w, handlers, e) ==
    IF handlers = << >> THEN w
    ELSE dispatch(callListener(w, Head(handlers), e), Tail(handlers), e)

-----------------------------------------------------------------------------
(* Inputs *)

\* boundaries with all four limits given
FullBoundaries == [minWidth |-> 200, minHeight |-> 150, maxWidth |-> 500, maxHeight |-> 400]

Configs ==
    { [boundaries |-> FullBoundaries, constrainToViewport |-> FALSE,
       constrainToParent |-> FALSE] }

\* the element's geometry when the manager is constructed (getCurrentState)
InitialGeometry == [x |-> 100, y |-> 50, width |-> 300, height |-> 200]

Viewport == [width |-> 800, height |-> 600]
ParentRect == [width |-> 500, height |-> 400]

\* arguments of setState: partial states
SetStateInputs ==
    { [width |-> 50, height |-> 50] }

-----------------------------------------------------------------------------
(* Initial state: the manager as its constructor leaves it *)

\* _uids of the managers a host creates on one page
Uids == {"a", "b", "c"}

\* a StatePersistencePlugin that is constructed and not installed, with empty registries;
\* writes counts the localStorage.setItem calls of the last operation that stored their
\* value; quotaExceeded: localStorage.setItem throws (the store is full)
PersistenceNotInstalled ==
    [manager |-> FALSE, containerId |-> "none", isDemoContainer |-> FALSE,
     bound |-> FALSE, autoSaveEffect |-> FALSE, debouncePending |-> FALSE,
     containers |-> << >>, demoContainers |-> << >>,
     containerStates |-> NoRecords, storage |-> NoRecords, writes |-> 0,
     quotaExceeded |-> FALSE]

\* a SnappingPlugin that is constructed with its defaults and not installed; startState
\* and lastPosition are << >> for null and a one-element sequence otherwise
SnappingNotInstalled ==
    [manager |-> FALSE, snapStep |-> 10, enabled |-> TRUE, isActive |-> FALSE,
     startX |-> 0, startY |-> 0, startState |-> << >>, lastPosition |-> << >>]

\* the containers a host gives an EdgeDockingPlugin each
DockContainers == {"a", "b"}

\* the four edges, in the order tryDock visits them (the keys of `distances`)
DockEdges == << "top", "right", "bottom", "left" >>

EdgeSet == { DockEdges[i] : i \in 1..Len(DockEdges) }

\* a plugin instance of the static-registry EdgeDockingPlugin after its constructor:
\* dockState and undockState are << >> for null and a one-element sequence otherwise;
\* timer is the event of the pending setTimeout of handleDispatch, setup the edge of
\* the pending 10 ms timer of dock; onDocked / onUndocked say whether a closure of this
\* instance listens on window; triggers counts the handleDispatch calls since the
\* pending timer was set (2 stands for two or more)
DockPluginNew ==
    [originalState |-> InitialGeometry, dockState |-> << >>, undockState |-> << >>,
     dockedId |-> FALSE, timer |-> "none", setup |-> "none",
     onDocked |-> FALSE, onUndocked |-> FALSE, triggers |-> 0]

\* the docking page before any gesture: two managers in the document body, each with
\* its own plugin instance; the static dockedContainers map is empty; timers holds
\* the instances whose setTimeout of handleDispatch is pending, in the order set;
\* dataset[c] is container.dataset.docked with the docked positioning of the element
DockingNotInstalled ==
    [dockedContainers |-> << >>, timers |-> << >>,
     dataset |-> [c \in DockContainers |-> FALSE],
     state |-> [c \in DockContainers |-> InitialGeometry],
     parent |-> [c \in DockContainers |-> "body"],
     dragging |-> [c \in DockContainers |-> FALSE],
     plugin |-> [c \in DockContainers |-> DockPluginNew]]

\* the same page with the per-instance EdgeDockingPlugin: every instance starts with
\* its four edges free and no docked element (<< >>)
EdgeDockingNotInstalled ==
    [state |-> [c \in DockContainers |-> InitialGeometry],
     dragging |-> [c \in DockContainers |-> FALSE],
     occupiedEdges |-> [c \in DockContainers |-> [e \in EdgeSet |-> "null"]],
     dockedContainers |-> [c \in DockContainers |-> << >>]]

\* container ids a host closes and restores
QueueIds == {"k1", "k2", "k3"}

\* the persistence plugin's static state when the page loads with an empty store:
\* closedQueue is reactiveState.closedQueue and storedQueue its copy in localStorage,
\* demoContainers the stored list of demo ids, containerStates the ids that have a
\* record; returned is what the last popLastClosedContainer() returned, clock counts
\* the addToClosedQueue calls that were not skipped and addedAt[id] is the count at
\* the last such call for id (0: never)
ClosedQueueEmpty ==
    [closedQueue |-> << >>, storedQueue |-> << >>, demoContainers |-> {},
     containerStates |-> {}, returned |-> "null", clock |-> 0,
     addedAt |-> [id \in QueueIds |-> 0]]

(* TemplateLoader (utils/templateLoader.ts): loadTemplate with its retry    *)
(* counter and fallback.  An async call runs up to its next await in one    *)
(* step; calls of one loader share its cache and its retryQueue.            *)

\* the registry of the loader: a template whose source is a string, one whose source
\* function resolves and one whose source function keeps rejecting; "unregistered" is
\* a name the registry does not hold
registry == [inline |-> "string", resolving |-> "resolves", failing |-> "rejects"]

TemplateNames == DOMAIN registry \cup {"unregistered"}

\* values of maxRetries (2 is the default)
MaxRetriesInputs == {0, 1, 2}

\* the loadTemplate calls a host makes
LoaderCalls == {1, 2}

\* a call that has not been made: invoked counts the calls of the source function,
\* onError those of config.onError; result is what the promise resolved to
CallNew ==
    [pc |-> "idle", name |-> "null", maxRetries |-> 0, retryCount |-> 0,
     invoked |-> 0, onError |-> 0, result |-> "none"]

\* a new loader with config.cache: true: nothing cached, an empty retryQueue
\* (retryQueue.get(name) ?? 0 reads 0 for a name it does not hold)
LoaderNew ==
    [cache |-> {}, retryQueue |-> [n \in TemplateNames |-> 0],
     call |-> [p \in LoaderCalls |-> CallNew]]

\* loadTemplate from its entry to the first await or return, for the call p: the
\* counter is read from the shared retryQueue; a cached template and a string source
\* return at once, an unregistered name reports one error and returns the fallback
loadTemplate(l, p) ==
    LET name == l.call[p].name
        retryCount == l.retryQueue[name]
        l1 == [l EXCEPT !.call[p].retryCount = retryCount]
    IN  IF name \in l.cache
        THEN [l1 EXCEPT !.call[p].pc = "resolved", !.call[p].result = "content"]
        ELSE IF name \notin DOMAIN registry
        THEN [l1 EXCEPT !.call[p].onError = @ + 1,
                        !.call[p].pc = "resolved", !.call[p].result = "fallback"]
        ELSE IF registry[name] = "string"
        THEN [l1 EXCEPT !.cache = @ \cup {name},
                        !.retryQueue[name] = 0,
                        !.call[p].pc = "resolved", !.call[p].result = "content"]
        ELSE [l1 EXCEPT !.call[p].invoked = @ + 1, !.call[p].pc = "source"]

\* loadTemplate from the settling of the source's promise to the next await or return:
\* the content is cached and returned; a rejection is retried after a backoff while
\* retryCount < maxRetries, else reported once and answered with the fallback
sourceSettled(l, p) ==
    LET name == l.call[p].name
        retryCount == l.call[p].retryCount
    IN  IF registry[name] = "resolves"
        THEN [l EXCEPT !.cache = @ \cup {name},
                       !.retryQueue[name] = 0,
                       !.call[p].pc = "resolved", !.call[p].result = "content"]
        ELSE IF retryCount < l.call[p].maxRetries
        THEN [l EXCEPT !.retryQueue[name] = retryCount + 1,
                       !.call[p].pc = "backoff"]
        ELSE [l EXCEPT !.call[p].onError = @ + 1,
                       !.retryQueue[name] = 0,
                       !.call[p].pc = "resolved", !.call[p].result = "fallback"]

\* the constructor's default: boundaries: { minWidth: 300, minHeight: 45 }
DefaultBoundaries == [minWidth |-> 300, minHeight |-> 45]

\* deepMerge of two flat objects: the keys of the source override those of the target
deepMerge(target, source) == source @@ target

InitWith(cfgs, vps, prs, geometries) ==
    /\ \E cfg \in cfgs :
          config = [cfg EXCEPT !.boundaries = deepMerge(DefaultBoundaries, cfg.boundaries)]
    /\ viewport \in vps
    /\ parentRect \in prs
    /\ \E g \in geometries :
          /\ reactiveState = [x |-> g.x, y |-> g.y, width |-> g.width, height |-> g.height,
                              mode |-> "smooth", draggingDirection |-> "all"]
          /\ startState = g
          /\ LET c == constrainedState(g, config, viewport, parentRect)
             IN  style = [left |-> c.x, top |-> c.y, width |-> c.width,
                          height |-> c.height, zIndex |-> 0]
    /\ isDragging = FALSE
    /\ isResizing = FALSE
    /\ resizeDirection = "null"
    /\ startX = 0
    /\ startY = 0
    /\ docListeners = << >>
    /\ handleListeners = {"mousedown", "touchstart", "contextmenu"}
    /\ effectActive = TRUE
    /\ emitterAlive = TRUE
    /\ draggable = << >>
    /\ emitted = << >>
    /\ lastOp = << "constructor" >>
    /\ gestures = 0
    /\ installedPlugins = {}
    /\ persistence = PersistenceNotInstalled
    /\ snapping = SnappingNotInstalled
    /\ managers = [u \in Uids |-> "none"]
    /\ zIndexOf = [u \in Uids |-> 0]
    /\ frontLog = << >>
    /\ docking = DockingNotInstalled
    /\ edgeDocking = EdgeDockingNotInstalled
    /\ closed = ClosedQueueEmpty
    /\ thrown = << >>
    /\ observers = observersOf(config)
    /\ loader = LoaderNew

Init == InitWith(Configs, {Viewport}, {ParentRect}, {InitialGeometry})

-----------------------------------------------------------------------------
(* Operations.  The host calls the manager's methods and starts gestures   *)
(* while the manager is live; after destroy() only pointer events still    *)
(* reach the handlers (through listeners left attached, or a bound handler *)
(* called with a synthetic event).                                         *)

SetState ==
    \E partial \in SetStateInputs :
        /\ emitterAlive
        /\ Commit(setState(World, partial))
        /\ lastOp' = << "setState" >>
        /\ UNCHANGED gestures

SetMode ==
    \E mode \in MovementModes \ {reactiveState.mode} :
        /\ emitterAlive
        /\ Commit(setMode(World, mode))
        /\ lastOp' = << "setMode" >>
        /\ UNCHANGED gestures

SetDirection ==
    \E direction \in DirectionModes \ {reactiveState.draggingDirection} :
        /\ emitterAlive
        /\ Commit(setDirection(World, direction))
        /\ lastOp' = << "setDirection" >>
        /\ UNCHANGED gestures

\* onDragStart, called by the drag handle's listener or directly (public method)
OnDragStart ==
    \E e \in PointerEvents :
        /\ emitterAlive
        /\ gestures < MaxGestures
        /\ Commit(onDragStart(World, e))
        /\ lastOp' = << "onDragStart" >>
        /\ gestures' = IF reactiveState.mode = "pinned" THEN gestures ELSE gestures + 1

\* onResizeStart, called by a resize handle's listener or directly (public method)
OnResizeStart ==
    \E e \in PointerEvents, direction \in ResizeInputs :
        /\ emitterAlive
        /\ gestures < MaxGestures
        /\ Commit(onResizeStart(World, e, direction))
        /\ lastOp' = << "onResizeStart" >>
        /\ gestures' = gestures + 1

\* direct calls of the public move/end handlers
OnDragMove ==
    \E e \in PointerEvents :
        /\ Commit(onDragMove(World, e))
        /\ lastOp' = << "onDragMove" >>
        /\ UNCHANGED gestures

OnDragEnd ==
    /\ Commit(onDragEnd(World))
    /\ lastOp' = << "onDragEnd" >>
    /\ UNCHANGED gestures

OnResizeMove ==
    \E e \in PointerEvents :
        /\ Commit(onResizeMove(World, e))
        /\ lastOp' = << "onResizeMove" >>
        /\ UNCHANGED gestures

OnResizeEnd ==
    /\ Commit(onResizeEnd(World))
    /\ lastOp' = << "onResizeEnd" >>
    /\ UNCHANGED gestures

\* a pointer move on the document: every move listener attached for the type runs
DocumentMove ==
    \E type \in {"mousemove", "touchmove"}, e \in PointerEvents :
        LET handlers == listenersFor(docListeners, type)
        IN  /\ handlers # << >>
            /\ Commit(dispatch(World, handlers, e))
            /\ lastOp' = handlers
            /\ UNCHANGED gestures

\* a pointer release on the document: every end listener attached for the type runs
DocumentUp ==
    \E type \in {"mouseup", "touchend"} :
        LET handlers == listenersFor(docListeners, type)
        IN  /\ handlers # << >>
            /\ Commit(dispatch(World, handlers, [clientX |-> 0, clientY |-> 0]))
            /\ lastOp' = handlers
            /\ UNCHANGED gestures

Destroy ==
    /\ emitterAlive
    /\ Commit(destroy(World))
    /\ lastOp' = << "destroy" >>
    /\ UNCHANGED gestures

Next ==
    \/ SetState
    \/ SetMode
    \/ SetDirection
    \/ OnDragStart
    \/ OnResizeStart
    \/ OnDragMove
    \/ OnDragEnd
    \/ OnResizeMove
    \/ OnResizeEnd
    \/ DocumentMove
    \/ DocumentUp
    \/ Destroy

Spec == Init /\ [][Next]_vars

-----------------------------------------------------------------------------
(* The resolver on its own: a manager whose state is written with raw      *)
(* states from a wide set, under every combination of the limits below.    *)

NoLimits == [k \in {} |-> 0]

ResolverBoundaries ==
    { w @@ h :
        w \in { lo @@ hi :
                  lo \in {NoLimits, [minWidth |-> 50], [minWidth |-> 300]},
                  hi \in {NoLimits, [maxWidth |-> 400]} },
        h \in {NoLimits, [minHeight |-> 45, maxHeight |-> 400]} }

\* limits set after construction: a zero minimum, a zero maximum, a maximum below the
\* minimum, and a narrower valid range
BoundariesInputs ==
    { [minWidth |-> 0], [maxWidth |-> 0], [minWidth |-> 300, maxWidth |-> 200],
      [minWidth |-> 100, maxWidth |-> 250] }

ResolverConfigs ==
    [boundaries : ResolverBoundaries,
     constrainToViewport : BOOLEAN,
     constrainToParent : BOOLEAN]

\* parents: laid out, smaller than the container's limits, not yet laid out
ResolverParents ==
    { ParentRect, [width |-> 100, height |-> 300], [width |-> 0, height |-> 0] }

\* raw states
ResolverStates ==
    [x : {-50, 80, 450}, y : {0, 350}, width : {5, 60, 600}, height : {5, 700}]

InitResolver == InitWith(ResolverConfigs, {Viewport}, ResolverParents, {InitialGeometry})

\* setBoundaries: the given limits are merged over the configured ones; nothing is recomputed
setBoundaries(cfg, boundaries) ==
    [cfg EXCEPT !.boundaries = boundaries @@ cfg.boundaries]

SetBoundaries ==
    \E boundaries \in BoundariesInputs :
        /\ lastOp = << "constructor" >>
        /\ config' = setBoundaries(config, boundaries)
        /\ lastOp' = << "setBoundaries" >>
        /\ UNCHANGED <<viewport, parentRect, reactiveState, isDragging, isResizing,
                       resizeDirection, startX, startY, startState, docListeners,
                       handleListeners, style, effectActive, emitterAlive, draggable,
                       emitted, gestures, installedPlugins, persistence, snapping,
                       managers, zIndexOf, frontLog, docking, edgeDocking, closed, thrown, observers, loader>>

\* the first setState, with a full raw state
SetStateRaw ==
    \E raw \in ResolverStates :
        /\ lastOp \in { << "constructor" >>, << "setBoundaries" >> }
        /\ Commit(setState(World, raw))
        /\ lastOp' = << "setState" >>
        /\ UNCHANGED gestures

\* ContainerInitializer.initializeContainer, step 6: the element's geometry as the
\* manager applied it is read back and written with setState
SyncFromDom ==
    /\ lastOp = << "setState" >>
    /\ Commit(setState(World, [x |-> style.left, y |-> style.top,
                               width |-> style.width, height |-> style.height]))
    /\ lastOp' = << "syncFromDom" >>
    /\ UNCHANGED gestures

NextResolver ==
    \/ SetBoundaries
    \/ SetStateRaw
    \/ SyncFromDom

SpecResolver == InitResolver /\ [][NextResolver]_vars

-----------------------------------------------------------------------------
(* The manager with plugins: a host installs the persistence and the snapping *)
(* plugin with use(), the pointer acts on the drag handle and the document.   *)

\* id under which the host installs the persistence plugin
ContainerId == "k"

PersistenceOptions ==
    { [containerId |-> ContainerId, isDemo |-> TRUE],
      [containerId |-> ContainerId, isDemo |-> FALSE] }

SnapStep == 30

SnappingOptions == { [snapStep |-> SnapStep, enabled |-> TRUE] }

\* pointer positions: raw deltas of 44, 46, 104, 106 and 150 between them
PluginPointerEvents ==
    { [clientX |-> 0, clientY |-> 0],
      [clientX |-> 44, clientY |-> 46],
      [clientX |-> 150, clientY |-> 150] }

PluginConfigs ==
    { [boundaries |-> NoLimits, constrainToViewport |-> v, constrainToParent |-> FALSE] :
        v \in BOOLEAN }

InitPlugins == InitWith(PluginConfigs, {Viewport}, {ParentRect}, {InitialGeometry})

UsePersistence ==
    \E options \in PersistenceOptions :
        /\ emitterAlive
        /\ "StatePersistencePlugin" \notin installedPlugins
        /\ Commit(use(World, "StatePersistencePlugin", options))
        /\ lastOp' = << "use" >>
        /\ UNCHANGED gestures

UseSnapping ==
    \E options \in SnappingOptions :
        /\ emitterAlive
        /\ "SnappingPlugin" \notin installedPlugins
        /\ Commit(use(World, "SnappingPlugin", options))
        /\ lastOp' = << "use" >>
        /\ UNCHANGED gestures

\* a pointer down on the drag handle: the manager's listener, when bound, runs first,
\* then the handler the snapping plugin assigned to onmousedown / ontouchstart
HandlePointerDown ==
    \E type \in {"mousedown", "touchstart"}, e \in PluginPointerEvents :
        LET own == type \in handleListeners
            plugin == snapping.manager
            w1 == IF own THEN onDragStart(World, e) ELSE World
            w2 == IF plugin THEN snappingOnDragStart(w1, e) ELSE w1
        IN  /\ gestures < MaxGestures
            /\ own \/ plugin
            /\ Commit(w2)
            /\ lastOp' = (IF own THEN << "onDragStart" >> ELSE << >>)
                            \o (IF plugin THEN << "snapping.onDragStart" >> ELSE << >>)
            /\ gestures' = gestures + 1

PluginPointerMove ==
    \E type \in {"mousemove", "touchmove"}, e \in PluginPointerEvents :
        LET handlers == listenersFor(docListeners, type)
        IN  /\ handlers # << >>
            /\ Commit(dispatch(World, handlers, e))
            /\ lastOp' = handlers
            /\ UNCHANGED gestures

PluginPointerUp ==
    \E type \in {"mouseup", "touchend"} :
        LET handlers == listenersFor(docListeners, type)
        IN  /\ handlers # << >>
            /\ Commit(dispatch(World, handlers, [clientX |-> 0, clientY |-> 0]))
            /\ lastOp' = handlers
            /\ UNCHANGED gestures

\* the debounce timer of the auto-save effect fires
DebounceFires ==
    /\ persistence.debouncePending
    /\ Commit(saveState([World EXCEPT !.persistence.debouncePending = FALSE]))
    /\ lastOp' = << "debouncedSave" >>
    /\ UNCHANGED gestures

\* the host calls the persistence plugin's own destroy()
PersistenceDestroy ==
    /\ persistence.manager
    /\ persistenceDestroy(World) # World
    /\ Commit(persistenceDestroy(World))
    /\ lastOp' = << "persistence.destroy" >>
    /\ UNCHANGED gestures

NextPlugins ==
    \/ UsePersistence
    \/ UseSnapping
    \/ HandlePointerDown
    \/ PluginPointerMove
    \/ PluginPointerUp
    \/ DebounceFires
    \/ PersistenceDestroy
    \/ Destroy

SpecPlugins == InitPlugins /\ [][NextPlugins]_vars

-----------------------------------------------------------------------------
(* Several managers on one page: they share the ordering State (getState()),  *)
(* each has its own element.  A host may register an id with State.push       *)
(* before it constructs the manager; the manager itself never calls push.     *)

\* State.push(uid): appended unless present
push(d, uid) == IF \E i \in 1..Len(d) : d[i] = uid THEN d ELSE Append(d, uid)

\* State.remove(uid)
remove(d, uid) == SelectSeq(d, LAMBDA id : id # uid)

\* State.zIndex(uid)
zIndex(d, uid) == highestZIndex + findIndex(d, uid)

orderingFrame ==
    UNCHANGED << config, viewport, parentRect, reactiveState, isDragging, isResizing,
                 resizeDirection, startX, startY, startState, docListeners,
                 handleListeners, style, effectActive, emitterAlive, emitted, gestures,
                 installedPlugins, persistence, snapping, docking, edgeDocking, closed, thrown, observers, loader >>

InitOrdering == Init

\* the host registers the id of a manager it is about to construct
HostPush ==
    \E uid \in Uids :
        /\ managers[uid] = "none"
        /\ push(draggable, uid) # draggable
        /\ draggable' = push(draggable, uid)
        /\ lastOp' = << "push" >>
        /\ UNCHANGED << managers, zIndexOf, frontLog >>
        /\ orderingFrame

\* new ContainerManager(el, {_uid: uid}): takes the shared State, registers nothing
Construct ==
    \E uid \in Uids :
        /\ managers[uid] = "none"
        /\ managers' = [managers EXCEPT ![uid] = "live"]
        /\ lastOp' = << "constructor" >>
        /\ UNCHANGED << draggable, zIndexOf, frontLog >>
        /\ orderingFrame

\* bringToFront() of a live manager
BringToFront ==
    \E uid \in Uids :
        /\ managers[uid] = "live"
        /\ draggable' = sortDraggable(draggable, uid)
        /\ zIndexOf' = [zIndexOf EXCEPT ![uid] = zIndex(draggable', uid)]
        /\ frontLog' = IF Len(frontLog) = 2 THEN << frontLog[2], uid >>
                       ELSE Append(frontLog, uid)
        /\ lastOp' = << "bringToFront" >>
        /\ UNCHANGED managers
        /\ orderingFrame

\* destroy() of a live manager: its id is removed from the ordering sequence
DestroyManager ==
    \E uid \in Uids :
        /\ managers[uid] = "live"
        /\ managers' = [managers EXCEPT ![uid] = "destroyed"]
        /\ draggable' = remove(draggable, uid)
        /\ frontLog' = SelectSeq(frontLog, LAMBDA id : id # uid)
        /\ lastOp' = << "destroy" >>
        /\ UNCHANGED zIndexOf
        /\ orderingFrame

NextOrdering ==
    \/ HostPush
    \/ Construct
    \/ BringToFront
    \/ DestroyManager

SpecOrdering == InitOrdering /\ [][NextOrdering]_vars

-----------------------------------------------------------------------------
(* EdgeDockingPlugin with the static registry (EdgeDockingPlugin.dockedContainers, *)
(* a Map from edge to manager shared by every instance).  Two managers, each with  *)
(* its own plugin instance, are dragged over one page.  The record `docking` is     *)
(* the state of the page; every operator below takes it and returns it changed.     *)

\* options.edgeThreshold as the constructor defaults it
edgeThreshold == 30

\* drags (pointer downs on a handle) per behaviour of the docking pages
MaxDockGestures == 3

\* where a drag can leave a container (x, y of the manager's state): near the top,
\* near the top and the left, near the right, near the bottom, and just beyond the
\* threshold of the top
DockPositions ==
    { [x |-> 100, y |-> 10], [x |-> 20, y |-> 10], [x |-> 490, y |-> 150],
      [x |-> 100, y |-> 390], [x |-> 100, y |-> 31] }

\* container.getBoundingClientRect() of a container in the document body: the element
\* is positioned by the manager at its state
getBoundingClientRect(state) ==
    [top |-> state.y, left |-> state.x,
     right |-> state.x + state.width, bottom |-> state.y + state.height]

\* tryDock: the distances of the rectangle to the four edges of the viewport
distances(rect, vp) ==
    [top |-> rect.top, right |-> vp.width - rect.right,
     bottom |-> vp.height - rect.bottom, left |-> rect.left]

\* EdgeDockingPlugin.dockedContainers.has(edge)
has(d, edge) ==
    \E i \in 1..Len(d.dockedContainers) : d.dockedContainers[i].edge = edge

\* EdgeDockingPlugin.dockedContainers.get(edge), "none" for undefined
get(d, edge) ==
    IF has(d, edge)
    THEN LET i == CHOOSE j \in 1..Len(d.dockedContainers) : d.dockedContainers[j].edge = edge
         IN  d.dockedContainers[i].manager
    ELSE "none"

\* getCurrentDockEdge: the first entry of the map, in insertion order, that holds this
\* manager; "null" when there is none
getCurrentDockEdge(d, c) ==
    LET mine == SelectSeq(d.dockedContainers, LAMBDA en : en.manager = c)
    IN  IF mine = << >> THEN "null" ELSE mine[1].edge

\* handleDispatch: a timer is set only while dockedId is not a number
handleDispatch(d, c, event) ==
    IF ~d.plugin[c].dockedId
    THEN [d EXCEPT !.plugin[c].dockedId = TRUE,
                   !.plugin[c].timer = event,
                   !.plugin[c].triggers = 1,
                   !.timers = Append(@, c)]
    ELSE [d EXCEPT !.plugin[c].triggers = 2]

\* undock(edge): only the manager registered for the edge, and only while its element
\* is a child of the edge's wrapper.  restoreContainerStyles reads this.undockState!,
\* which throws while undockState is null: the element is back in the body and the
\* rest of undock is skipped
undock(d, c, edge) ==
    IF get(d, edge) # c THEN d
    ELSE IF d.parent[c] # edge THEN d
    ELSE LET d1 == [d EXCEPT !.parent[c] = "body"]
         IN  IF d.plugin[c].undockState = << >> THEN d1
             ELSE LET d2 == handleDispatch([d1 EXCEPT !.dataset[c] = FALSE], c, "undocked")
                  IN  [d2 EXCEPT !.dockedContainers =
                                     SelectSeq(@, LAMBDA en : en.edge # edge)]

\* dock(edge): snapshot of the state, the two window listeners, the element moved into
\* the wrapper, the 10 ms timer of setupDockedPositioning, the registry entry
dock(d, c, edge) ==
    [d EXCEPT !.plugin[c].originalState = d.state[c],
              !.plugin[c].onDocked = TRUE,
              !.plugin[c].onUndocked = TRUE,
              !.plugin[c].setup = edge,
              !.parent[c] = edge,
              !.dockedContainers = Append(@, [edge |-> edge, manager |-> c])]

RECURSIVE tryDockLoop(_, _, _, _, _)
\* the loop of tryDock over Object.entries(distances), from entry i on
tryDockLoop(d, dist, i, closestEdge, minDistance) ==
    IF i > Len(DockEdges) THEN closestEdge
    ELSE LET edge == DockEdges[i]
         IN  IF dist[edge] <= minDistance /\ ~has(d, edge)
             THEN tryDockLoop(d, dist, i + 1, edge, dist[edge])
             ELSE tryDockLoop(d, dist, i + 1, closestEdge, minDistance)

\* tryDock: dock to the nearest edge that is within the threshold and not in the map
tryDock(d, c, vp) ==
    LET dist == distances(getBoundingClientRect(d.state[c]), vp)
        closestEdge == tryDockLoop(d, dist, 1, "null", edgeThreshold)
    IN  IF closestEdge = "null" THEN d ELSE dock(d, c, closestEdge)

\* getStyles(container, { left: 'x', top: 'y' }, true) of the docked element: left or
\* top is 50% of the wrapper, which spans the viewport along its edge; the other offset
\* is 0, the wrapper being as wide (as high) as the element
dockedStyles(edge, vp) ==
    IF edge \in {"top", "bottom"} THEN [x |-> vp.width \div 2, y |-> 0]
    ELSE [x |-> 0, y |-> vp.height \div 2]

calcDockState(transformState, edge) ==
    LET coords == IF edge \in {"top", "bottom"}
                  THEN [x |-> transformState.x - (transformState.width \div 2), y |-> 0]
                  ELSE [x |-> 0, y |-> transformState.y - (transformState.height \div 2)]
    IN  coords @@ transformState

calcUndockState(transformState, originalState, edge) ==
    LET coords ==
          CASE edge = "top"    -> [x |-> transformState.x - (transformState.width \div 2),
                                   y |-> 0]
            [] edge = "bottom" -> [x |-> transformState.x - (transformState.width \div 2),
                                   y |-> originalState.y - 20]
            [] edge = "left"   -> [x |-> 0,
                                   y |-> transformState.y - (transformState.height \div 2)]
            [] edge = "right"  -> [x |-> originalState.x - 20,
                                   y |-> transformState.y - (transformState.height \div 2)]
    IN  coords @@ transformState

\* setupDockedPositioning, run by the 10 ms timer of dock: whatever the registry holds,
\* the element gets the docked positioning and data-docked, and 'docked' is requested
setupDockedPositioning(d, c, edge, vp) ==
    LET originalState == d.plugin[c].originalState
        transformState == dockedStyles(edge, vp) @@ originalState
        d1 == [d EXCEPT !.plugin[c].dockState = << calcDockState(transformState, edge) >>,
                        !.plugin[c].undockState =
                            << calcUndockState(transformState, originalState, edge) >>,
                        !.plugin[c].setup = "none",
                        !.dataset[c] = TRUE]
    IN  handleDispatch(d1, c, "docked")

\* the closure `docked` of instance k, called for a 'docked' event on window:
\* setState(this.dockState!) throws while dockState is null, before anything else
docked(d, k) ==
    IF d.plugin[k].dockState = << >> THEN d
    ELSE [d EXCEPT !.state[k] = d.plugin[k].dockState[1],
                   !.plugin[k].onDocked = FALSE,
                   !.plugin[k].timer = "none",
                   !.plugin[k].dockedId = FALSE,
                   !.timers = SelectSeq(@, LAMBDA id : id # k)]

\* the closure `undocked` of instance k, called for an 'undocked' event on window
undocked(d, k) ==
    IF d.plugin[k].undockState = << >> THEN d
    ELSE [d EXCEPT !.state[k] = d.plugin[k].undockState[1],
                   !.plugin[k].onUndocked = FALSE,
                   !.plugin[k].timer = "none",
                   !.plugin[k].dockedId = FALSE,
                   !.timers = SelectSeq(@, LAMBDA id : id # k)]

RECURSIVE dispatchToListeners(_, _, _)
\* window.dispatchEvent: every closure that listens on window for the event runs,
\* whichever instance added it
dispatchToListeners(d, event, ks) ==
    IF ks = {} THEN d
    ELSE LET k == CHOOSE x \in ks : TRUE
             listens == IF event = "docked" THEN d.plugin[k].onDocked
                        ELSE d.plugin[k].onUndocked
             d1 == IF ~listens THEN d
                   ELSE IF event = "docked" THEN docked(d, k) ELSE undocked(d, k)
         IN  dispatchToListeners(d1, event, ks \ {k})

dockingFrame ==
    UNCHANGED << config, viewport, parentRect, reactiveState, isDragging, isResizing,
                 resizeDirection, startX, startY, startState, docListeners,
                 handleListeners, style, effectActive, emitterAlive, draggable, emitted,
                 installedPlugins, persistence, snapping, managers, zIndexOf,
                 frontLog, edgeDocking, closed, thrown, observers, loader >>

InitDocking == Init

\* pointer down on the handle of c: the manager emits dragStart, the plugin undocks.
\* Gestures are at least 10 ms apart: the positioning timer of a dock has fired before
\* the next drag of the container starts
DockDragStart ==
    \E c \in DockContainers :
        /\ gestures < MaxDockGestures
        /\ ~docking.dragging[c]
        /\ docking.plugin[c].setup = "none"
        /\ LET d1 == [docking EXCEPT !.dragging[c] = TRUE]
               currentEdge == getCurrentDockEdge(d1, c)
           IN  docking' = IF currentEdge = "null" THEN d1 ELSE undock(d1, c, currentEdge)
        /\ lastOp' = << "dragStart", c >>
        /\ gestures' = gestures + 1
        /\ dockingFrame

\* pointer moves of a drag: the manager writes the start state plus the pointer's
\* delta; the events are chosen so that the sum is the position p
DockDragMove ==
    \E c \in DockContainers, p \in DockPositions :
        /\ docking.dragging[c]
        /\ docking' = [docking EXCEPT !.state[c] = p @@ @]
        /\ lastOp' = << "drag", c >>
        /\ UNCHANGED gestures
        /\ dockingFrame

\* pointer up: the manager emits dragEnd, the plugin (enabled) tries to dock
DockDragEnd ==
    \E c \in DockContainers :
        /\ docking.dragging[c]
        /\ docking' = tryDock([docking EXCEPT !.dragging[c] = FALSE], c, viewport)
        /\ lastOp' = << "dragEnd", c >>
        /\ UNCHANGED gestures
        /\ dockingFrame

\* the 10 ms timer of dock fires
SetupFires ==
    \E c \in DockContainers :
        /\ docking.plugin[c].setup # "none"
        /\ docking' = setupDockedPositioning(docking, c, docking.plugin[c].setup, viewport)
        /\ lastOp' = << "setupDockedPositioning", c >>
        /\ UNCHANGED gestures
        /\ dockingFrame

\* the timer of handleDispatch that was set first fires: dispatch(event) on window
DispatchFires ==
    \E c \in DockContainers :
        /\ docking.timers # << >>
        /\ c = Head(docking.timers)
        /\ LET event == docking.plugin[c].timer
               d1 == [docking EXCEPT !.plugin[c].timer = "none", !.timers = Tail(@)]
           IN  /\ docking' = dispatchToListeners(d1, event, DockContainers)
               /\ lastOp' = << "dispatch", c, event >>
        /\ UNCHANGED gestures
        /\ dockingFrame

NextDocking ==
    \/ DockDragStart
    \/ DockDragMove
    \/ DockDragEnd
    \/ SetupFires
    \/ DispatchFires

SpecDocking == InitDocking /\ [][NextDocking]_vars

\* the same page without the assumption on the gestures: a pointer down on the handle
\* of c within the 10 ms after its dock, while the positioning timer is pending
DockDragStartEarly ==
    \E c \in DockContainers :
        /\ gestures < MaxDockGestures
        /\ ~docking.dragging[c]
        /\ docking.plugin[c].setup # "none"
        /\ LET d1 == [docking EXCEPT !.dragging[c] = TRUE]
               currentEdge == getCurrentDockEdge(d1, c)
           IN  docking' = IF currentEdge = "null" THEN d1 ELSE undock(d1, c, currentEdge)
        /\ lastOp' = << "dragStart", c >>
        /\ gestures' = gestures + 1
        /\ dockingFrame

NextDockingEarly ==
    \/ DockDragStart
    \/ DockDragStartEarly
    \/ DockDragMove
    \/ DockDragEnd
    \/ SetupFires
    \/ DispatchFires

SpecDockingEarly == InitDocking /\ [][NextDockingEarly]_vars

-----------------------------------------------------------------------------
(* EdgeDockingPlugin with per-instance bookkeeping (this.occupiedEdges and        *)
(* this.dockedContainers are fields of the instance).  The same page: two managers, *)
(* each with its own plugin instance.  The record `edgeDocking` is the state of the *)
(* page.                                                                            *)

\* the keys of `distances` in getClosestEdge, in the order Object.entries lists them
ClosestEdgeOrder == << "top", "bottom", "left", "right" >>

\* getClosestEdge: the distances of the rectangle to the four edges
edgeDistances(rect, vp) ==
    [top |-> rect.top, bottom |-> vp.height - rect.bottom,
     left |-> rect.left, right |-> vp.width - rect.right]

\* getClosestEdge: the edges within the threshold on either side, sorted by distance
\* (Array.prototype.sort is stable), the first of them or "null"
getClosestEdge(rect, vp) ==
    LET dist == edgeDistances(rect, vp)
        validEdges == SelectSeq(ClosestEdgeOrder,
                          LAMBDA e : dist[e] >= -edgeThreshold /\ dist[e] <= edgeThreshold)
    IN  IF validEdges = << >> THEN "null"
        ELSE LET i == CHOOSE j \in 1..Len(validEdges) :
                          /\ \A k \in 1..Len(validEdges) :
                                dist[validEdges[j]] <= dist[validEdges[k]]
                          /\ \A k \in 1..(j - 1) :
                                dist[validEdges[k]] > dist[validEdges[j]]
             IN  validEdges[i]

\* isEdgeOccupied of the instance of container c
isEdgeOccupied(ed, c, edge) == ed.occupiedEdges[c][edge] # "null"

\* dockContainer: the instance records the element with its screen position and size
\* and marks the edge occupied in its own map
dockContainer(ed, c, edge) ==
    LET rect == getBoundingClientRect(ed.state[c])
    IN  [ed EXCEPT !.dockedContainers[c] =
                       << [edge |-> edge,
                           screenPosition |-> [x |-> rect.left, y |-> rect.top],
                           originalPosition |-> [width |-> ed.state[c].width,
                                                 height |-> ed.state[c].height]] >>,
                   !.occupiedEdges[c][edge] = c]

\* undockContainer and restoreOriginalPosition: the instance frees the edge and sets
\* the manager's state from the saved screen position and size
undockContainer(ed, c) ==
    LET dockedEntry == ed.dockedContainers[c][1]
    IN  [ed EXCEPT !.dockedContainers[c] = << >>,
                   !.occupiedEdges[c][dockedEntry.edge] = "null",
                   !.state[c] = [x |-> dockedEntry.screenPosition.x,
                                 y |-> dockedEntry.screenPosition.y,
                                 width |-> dockedEntry.originalPosition.width,
                                 height |-> dockedEntry.originalPosition.height]]

\* onDragStart of the instance of c: undock if docked
edgeOnDragStart(ed, c) ==
    IF ed.dockedContainers[c] # << >> THEN undockContainer(ed, c) ELSE ed

\* onDragEnd of the instance of c: dock to the closest edge unless this instance has it
\* occupied
edgeOnDragEnd(ed, c, vp) ==
    LET edge == getClosestEdge(getBoundingClientRect(ed.state[c]), vp)
    IN  IF edge # "null" /\ ~isEdgeOccupied(ed, c, edge)
        THEN dockContainer(ed, c, edge)
        ELSE ed

edgeDockingFrame ==
    UNCHANGED << config, viewport, parentRect, reactiveState, isDragging, isResizing,
                 resizeDirection, startX, startY, startState, docListeners,
                 handleListeners, style, effectActive, emitterAlive, draggable, emitted,
                 installedPlugins, persistence, snapping, managers, zIndexOf,
                 frontLog, docking, closed, thrown, observers, loader >>

InitEdgeDocking == Init

\* pointer down on the handle of c: the manager emits dragStart
EdgeDragStart ==
    \E c \in DockContainers :
        /\ gestures < MaxDockGestures
        /\ ~edgeDocking.dragging[c]
        /\ edgeDocking' = edgeOnDragStart([edgeDocking EXCEPT !.dragging[c] = TRUE], c)
        /\ lastOp' = << "dragStart", c >>
        /\ gestures' = gestures + 1
        /\ edgeDockingFrame

\* pointer moves of a drag: the manager writes the start state plus the pointer's
\* delta; the events are chosen so that the sum is the position p
EdgeDragMove ==
    \E c \in DockContainers, p \in DockPositions :
        /\ edgeDocking.dragging[c]
        /\ edgeDocking' = [edgeDocking EXCEPT !.state[c] = p @@ @]
        /\ lastOp' = << "drag", c >>
        /\ UNCHANGED gestures
        /\ edgeDockingFrame

\* pointer up: the manager emits dragEnd
EdgeDragEnd ==
    \E c \in DockContainers :
        /\ edgeDocking.dragging[c]
        /\ edgeDocking' =
               edgeOnDragEnd([edgeDocking EXCEPT !.dragging[c] = FALSE], c, viewport)
        /\ lastOp' = << "dragEnd", c >>
        /\ UNCHANGED gestures
        /\ edgeDockingFrame

NextEdgeDocking ==
    \/ EdgeDragStart
    \/ EdgeDragMove
    \/ EdgeDragEnd

SpecEdgeDocking == InitEdgeDocking /\ [][NextEdgeDocking]_vars

-----------------------------------------------------------------------------
(* StatePersistencePlugin: the closed-container queue.  The record `closed` is the *)
(* plugin's static state; the host closes containers and restores the last closed. *)

\* addToClosedQueue calls that are not skipped, per behaviour
MaxQueueAdds == 4

\* a mutant of addToClosedQueue: an id that is already queued is not removed first
addToClosedQueue_noSplice(q, containerId) ==
    IF containerId \notin q.demoContainers THEN q
    ELSE IF containerId \notin q.containerStates THEN q
    ELSE LET pushed == Append(q.closedQueue, containerId)
         IN  [q EXCEPT !.closedQueue = pushed,
                       !.storedQueue = pushed,
                       !.clock = @ + 1,
                       !.addedAt[containerId] = q.clock + 1]

\* addToClosedQueue(containerId): skipped for an id that is not a demo container or
\* has no saved state; otherwise the id is removed if queued, pushed, and the queue
\* is written to localStorage
addToClosedQueue(q, containerId) ==
    IF containerId \notin q.demoContainers THEN q
    ELSE IF containerId \notin q.containerStates THEN q
    ELSE LET spliced == SelectSeq(q.closedQueue, LAMBDA id : id # containerId)
             pushed == Append(spliced, containerId)
         IN  [q EXCEPT !.closedQueue = pushed,
                       !.storedQueue = pushed,
                       !.clock = @ + 1,
                       !.addedAt[containerId] = q.clock + 1]

\* popLastClosedContainer(): null on an empty queue, else the last id is removed,
\* the queue is written to localStorage and the id returned
popLastClosedContainer(q) ==
    IF Len(q.closedQueue) = 0 THEN [q EXCEPT !.returned = "null"]
    ELSE LET popped == SubSeq(q.closedQueue, 1, Len(q.closedQueue) - 1)
         IN  [q EXCEPT !.closedQueue = popped,
                       !.storedQueue = popped,
                       !.returned = q.closedQueue[Len(q.closedQueue)]]

\* saveContainerStateBeforeClose(manager, containerId): for a demo container the
\* closed state is stored and the id queued
saveContainerStateBeforeClose(q, containerId) ==
    IF containerId \notin q.demoContainers THEN q
    ELSE addToClosedQueue([q EXCEPT !.containerStates = @ \cup {containerId}],
                          containerId)

\* clearStorage(): the reactive state and the three stored items are emptied
clearStorage(q) ==
    [q EXCEPT !.closedQueue = << >>, !.storedQueue = << >>,
              !.demoContainers = {}, !.containerStates = {}]

\* initializeReactiveState(): the queue is reloaded from localStorage
initializeReactiveState(q) ==
    [q EXCEPT !.closedQueue = q.storedQueue]

closedQueueFrame ==
    UNCHANGED << config, viewport, parentRect, reactiveState, isDragging, isResizing,
                 resizeDirection, startX, startY, startState, docListeners,
                 handleListeners, style, effectActive, emitterAlive, draggable, emitted,
                 gestures, installedPlugins, persistence, snapping, managers, zIndexOf,
                 frontLog, docking, edgeDocking, thrown, observers, loader >>

InitClosedQueue == Init

\* use(new StatePersistencePlugin(), { containerId, isDemo: true }): registerDemoContainer
InstallDemoContainer ==
    \E id \in QueueIds :
        /\ id \notin closed.demoContainers
        /\ closed' = [closed EXCEPT !.demoContainers = @ \cup {id}]
        /\ lastOp' = << "use", id >>
        /\ closedQueueFrame

\* a save of a demo container (saveState) creates its record
SaveDemoState ==
    \E id \in closed.demoContainers :
        /\ id \notin closed.containerStates
        /\ closed' = [closed EXCEPT !.containerStates = @ \cup {id}]
        /\ lastOp' = << "saveState", id >>
        /\ closedQueueFrame

AddToClosedQueue ==
    \E id \in QueueIds :
        /\ closed.clock < MaxQueueAdds
        /\ closed' = addToClosedQueue(closed, id)
        /\ lastOp' = << "addToClosedQueue", id >>
        /\ closedQueueFrame

SaveContainerStateBeforeClose ==
    \E id \in QueueIds :
        /\ closed.clock < MaxQueueAdds
        /\ closed' = saveContainerStateBeforeClose(closed, id)
        /\ lastOp' = << "saveContainerStateBeforeClose", id >>
        /\ closedQueueFrame

PopLastClosedContainer ==
    /\ closed' = popLastClosedContainer(closed)
    /\ lastOp' = << "popLastClosedContainer" >>
    /\ closedQueueFrame

ClearStorage ==
    /\ closed.demoContainers # {}
    /\ closed' = clearStorage(closed)
    /\ lastOp' = << "clearStorage" >>
    /\ closedQueueFrame

InitializeReactiveState ==
    /\ closed' = initializeReactiveState(closed)
    /\ lastOp' = << "initializeReactiveState" >>
    /\ closedQueueFrame

NextClosedQueue ==
    \/ InstallDemoContainer
    \/ SaveDemoState
    \/ AddToClosedQueue
    \/ SaveContainerStateBeforeClose
    \/ PopLastClosedContainer
    \/ ClearStorage
    \/ InitializeReactiveState

SpecClosedQueue == InitClosedQueue /\ [][NextClosedQueue]_vars

-----------------------------------------------------------------------------
(* Installation: use() of new plugins, of plugins that are installed already and   *)
(* of a plugin whose install throws, between other calls of the host.               *)

\* options of a second use() of an installed plugin: they differ from the first ones
ReuseOptions(plugin) ==
    IF plugin = "StatePersistencePlugin"
    THEN { [containerId |-> "k2", isDemo |-> TRUE], [containerId |-> "k2", isDemo |-> FALSE] }
    ELSE { [snapStep |-> 15, enabled |-> FALSE] }

\* what the throwing install does before it throws
ThrowingOptions == { [mode |-> "none"], [mode |-> "pinned"] }

InitUse == InitPlugins

UseInstalled ==
    \E plugin \in installedPlugins :
        \E options \in ReuseOptions(plugin) :
            /\ emitterAlive
            /\ Commit(use(World, plugin, options))
            /\ lastOp' = << "useInstalled", plugin >>
            /\ UNCHANGED gestures

UseThrowing ==
    \E options \in ThrowingOptions :
        /\ emitterAlive
        /\ Commit(use(World, "ThrowingPlugin", options))
        /\ lastOp' = << "useThrowing" >>
        /\ UNCHANGED gestures

NextUse ==
    \/ UsePersistence
    \/ UseSnapping
    \/ UseInstalled
    \/ UseThrowing
    \/ SetState
    \/ SetMode
    \/ SetDirection
    \/ DebounceFires
    \/ PersistenceDestroy
    \/ Destroy

SpecUse == InitUse /\ [][NextUse]_vars

-----------------------------------------------------------------------------
(* Viewport and parent resizes: the window and the parent element change their   *)
(* size, the ResizeObservers' callbacks run, animation frames run the pending     *)
(* frame callback; drags go on in between.                                         *)

\* corrections of one observer the model lets run between two animation frames
MaxCallbacksPerFrame == 2

\* drags the model lets the user make in the specifications of resizes and of storage
MaxBoundedGestures == 1

\* a manager that keeps its container in the viewport and adjusts it to its parent
ViewportConfigs ==
    { [boundaries |-> [minWidth |-> 100, minHeight |-> 45, maxWidth |-> 500,
                       maxHeight |-> 400],
       constrainToViewport |-> TRUE, constrainToParent |-> FALSE,
       autoAdjust |-> [enabled |-> TRUE, width |-> TRUE, height |-> FALSE]] }

\* window.innerWidth / innerHeight after a resize of the window
Viewports == { Viewport, [width |-> 350, height |-> 220] }

\* the parent's content box after a resize of the parent
ParentRects == { ParentRect, [width |-> 200, height |-> 400] }

getMaxWidthConstraint(cfg, pr) ==
    LET maxWidth == OrDefault(cfg.boundaries, "maxWidth", Infinity)
    IN  IF cfg.constrainToParent THEN Min(maxWidth, pr.width) ELSE maxWidth

getMaxHeightConstraint(cfg, pr) ==
    LET maxHeight == OrDefault(cfg.boundaries, "maxHeight", Infinity)
    IN  IF cfg.constrainToParent THEN Min(maxHeight, pr.height) ELSE maxHeight

\* a mutant of handleViewportResize: the correction restarts the gesture in progress from
\* the corrected state
handleViewportResize_restartsGesture(w) ==
    IF ~shouldConstrainToViewport(config) THEN w
    ELSE LET s0 == getState(w)
             s1 == IF s0.x + s0.width > viewport.width
                   THEN [s0 EXCEPT !.x = Max(0, viewport.width - s0.width)] ELSE s0
             s2 == IF s1.y + s1.height > viewport.height
                   THEN [s1 EXCEPT !.y = Max(0, viewport.height - s1.height)] ELSE s1
             s3 == IF s2.x < 0 THEN [s2 EXCEPT !.x = 0] ELSE s2
             newState == IF s3.y < 0 THEN [s3 EXCEPT !.y = 0] ELSE s3
         IN  IF newState = s0 THEN w
             ELSE [emit(setState(w, newState), "viewportResize")
                      EXCEPT !.startState = newState]

\* handleViewportResize: a container that reaches beyond the right or bottom edge of the
\* viewport, or lies left of or above it, is moved back in; needsUpdate is set exactly
\* when one of the four tests holds, and each of them changes newState
handleViewportResize(w) ==
    IF ~shouldConstrainToViewport(config) THEN w
    ELSE LET s0 == getState(w)
             s1 == IF s0.x + s0.width > viewport.width
                   THEN [s0 EXCEPT !.x = Max(0, viewport.width - s0.width)] ELSE s0
             s2 == IF s1.y + s1.height > viewport.height
                   THEN [s1 EXCEPT !.y = Max(0, viewport.height - s1.height)] ELSE s1
             s3 == IF s2.x < 0 THEN [s2 EXCEPT !.x = 0] ELSE s2
             newState == IF s3.y < 0 THEN [s3 EXCEPT !.y = 0] ELSE s3
             needsUpdate == \/ s0.x + s0.width > viewport.width
                            \/ s1.y + s1.height > viewport.height
                            \/ s2.x < 0
                            \/ s3.y < 0
         IN  IF needsUpdate THEN emit(setState(w, newState), "viewportResize") ELSE w

\* handleParentResize(entry): entry.contentRect is the parent's size
handleParentResize(w, contentRect) ==
    LET autoAdjust == autoAdjustOf(config)
    IN  IF ~autoAdjust.enabled THEN w
        ELSE LET s0 == getState(w)
                 newWidth == Min(contentRect.width, getMaxWidthConstraint(config, parentRect))
                 newHeight == Min(contentRect.height,
                                  getMaxHeightConstraint(config, parentRect))
                 s1 == IF autoAdjust.width /\ Abs(s0.width - newWidth) > 1
                       THEN [s0 EXCEPT !.width = newWidth] ELSE s0
                 newState == IF autoAdjust.height /\ Abs(s1.height - newHeight) > 1
                             THEN [s1 EXCEPT !.height = newHeight] ELSE s1
             IN  IF newState # s0 THEN emit(setState(w, newState), "autoAdjust") ELSE w

\* the callback of the viewport observer: a pending frame callback is cancelled and a
\* new one requested
viewportObserverCallback(w) ==
    [w EXCEPT !.observers.bodyNotified = FALSE, !.observers.rAFTimeout = TRUE]

\* the callback of the parent observer: the correction runs for the entry
parentObserverCallback(w) ==
    LET w1 == handleParentResize(w, parentRect)
    IN  [w1 EXCEPT !.observers.parentNotified = FALSE,
                   !.observers.corrections.parent =
                       IF "autoAdjust" \in Range(w1.emitted) THEN @ + 1 ELSE @]

\* the frame callback requested by the viewport observer
animationFrameCallback(w) ==
    LET w1 == handleViewportResize(w)
    IN  [w1 EXCEPT !.observers.rAFTimeout = FALSE,
                   !.observers.corrections.viewport =
                       IF "viewportResize" \in Range(w1.emitted) THEN @ + 1 ELSE @]

\* what the resize of the window or of the parent leaves alone
resizeFrame ==
    << config, reactiveState, isDragging, isResizing, resizeDirection, startX, startY,
       startState, docListeners, handleListeners, style, effectActive, emitterAlive,
       draggable, gestures, installedPlugins, persistence, snapping, managers, zIndexOf,
       frontLog, docking, edgeDocking, closed, loader >>

InitViewport == InitWith(ViewportConfigs, {Viewport}, {ParentRect}, {InitialGeometry})

\* the window is resized; document.body follows and its observer is notified
WindowResized ==
    \E vp \in Viewports \ {viewport} :
        /\ viewport' = vp
        /\ observers' = [observers EXCEPT !.bodyNotified = observers.viewport]
        /\ emitted' = << >>
        /\ thrown' = << >>
        /\ lastOp' = << "windowResized" >>
        /\ UNCHANGED resizeFrame
        /\ UNCHANGED parentRect

\* the parent element is resized; its observer is notified
ParentResized ==
    \E pr \in ParentRects \ {parentRect} :
        /\ parentRect' = pr
        /\ observers' = [observers EXCEPT !.parentNotified = observers.parent]
        /\ emitted' = << >>
        /\ thrown' = << >>
        /\ lastOp' = << "parentResized" >>
        /\ UNCHANGED resizeFrame
        /\ UNCHANGED viewport

ViewportObserverFires ==
    /\ observers.bodyNotified
    /\ Commit(viewportObserverCallback(World))
    /\ lastOp' = << "viewportObserver" >>
    /\ UNCHANGED gestures

ParentObserverFires ==
    /\ observers.parentNotified
    /\ observers.corrections.parent < MaxCallbacksPerFrame
    /\ Commit(parentObserverCallback(World))
    /\ lastOp' = << "parentObserver" >>
    /\ UNCHANGED gestures

\* an animation frame: the pending frame callback runs; a new frame begins
AnimationFrame ==
    /\ \/ observers.rAFTimeout
       \/ observers.corrections # [viewport |-> 0, parent |-> 0]
    /\ LET w0 == [World EXCEPT !.observers.corrections = [viewport |-> 0, parent |-> 0]]
       IN  Commit(IF observers.rAFTimeout THEN animationFrameCallback(w0) ELSE w0)
    /\ lastOp' = << "animationFrame", observers.rAFTimeout >>
    /\ UNCHANGED gestures

BoundedDragStart ==
    /\ gestures < MaxBoundedGestures
    /\ OnDragStart

NextViewport ==
    \/ WindowResized
    \/ ParentResized
    \/ ViewportObserverFires
    \/ ParentObserverFires
    \/ AnimationFrame
    \/ BoundedDragStart
    \/ OnDragMove
    \/ OnDragEnd

SpecViewport == InitViewport /\ [][NextViewport]_vars

-----------------------------------------------------------------------------
(* Persistence with a store that can be full: saves at the end of a gesture, by    *)
(* the debounce timer and by the page's beforeunload / visibilitychange events.     *)

InitStorage == InitPlugins

\* the store becomes full, or has room again
QuotaChanges ==
    /\ Commit([World EXCEPT !.persistence.quotaExceeded = ~@])
    /\ lastOp' = << "quota" >>
    /\ UNCHANGED gestures

\* beforeunload, or visibilitychange with a hidden document
SaveAllContainers ==
    /\ persistence.manager
    /\ Commit(saveAllContainers(World))
    /\ lastOp' = << "saveAllContainers" >>
    /\ UNCHANGED gestures

NextStorage ==
    \/ UsePersistence
    \/ QuotaChanges
    \/ SaveAllContainers
    \/ SetState
    \/ BoundedDragStart
    \/ OnDragMove
    \/ OnDragEnd
    \/ DebounceFires

SpecStorage == InitStorage /\ [][NextStorage]_vars

-----------------------------------------------------------------------------
(* Gestures and setResizeConfig: the host replaces the resize configuration, which  *)
(* binds the handlers again, between the events of drags and resizes.               *)

SetResizeConfig ==
    \E enabled \in BOOLEAN :
        /\ emitterAlive
        /\ Commit(setResizeConfig(World, enabled))
        /\ lastOp' = << "setResizeConfig" >>
        /\ UNCHANGED gestures

NextRebind ==
    \/ BoundedDragStart
    \/ OnResizeStart
    \/ OnDragEnd
    \/ OnResizeEnd
    \/ DocumentMove
    \/ DocumentUp
    \/ SetResizeConfig

SpecRebind == Init /\ [][NextRebind]_vars

-----------------------------------------------------------------------------
(* TemplateLoader: a host makes loadTemplate calls on one loader; the source *)
(* promises settle and the backoff timers fire in any order.                 *)

loaderFrame ==
    UNCHANGED << config, viewport, parentRect, reactiveState, isDragging, isResizing,
                 resizeDirection, startX, startY, startState, docListeners,
                 handleListeners, style, effectActive, emitterAlive, draggable, emitted,
                 gestures, installedPlugins, persistence, snapping, managers, zIndexOf,
                 frontLog, docking, edgeDocking, closed, thrown, observers >>

InitLoader == Init

\* the host calls loadTemplate(name, maxRetries)
LoadTemplate ==
    \E p \in LoaderCalls, name \in TemplateNames, maxRetries \in MaxRetriesInputs :
        /\ loader.call[p].pc = "idle"
        /\ loader' = loadTemplate([loader EXCEPT !.call[p].name = name,
                                                 !.call[p].maxRetries = maxRetries], p)
        /\ lastOp' = << "loadTemplate", p >>
        /\ loaderFrame

\* the promise of templateConfig.source() settles
SourceSettles ==
    \E p \in LoaderCalls :
        /\ loader.call[p].pc = "source"
        /\ loader' = sourceSettled(loader, p)
        /\ lastOp' = << "source", p >>
        /\ loaderFrame

\* the backoff timer fires: return this.loadTemplate(name, maxRetries)
BackoffElapses ==
    \E p \in LoaderCalls :
        /\ loader.call[p].pc = "backoff"
        /\ loader' = loadTemplate(loader, p)
        /\ lastOp' = << "retry", p >>
        /\ loaderFrame

NextLoader ==
    \/ LoadTemplate
    \/ SourceSettles
    \/ BackoffElapses

SpecLoader == InitLoader /\ [][NextLoader]_vars

-----------------------------------------------------------------------------
(* Claims *)

\* the limits the resolver applies: `boundaries.minWidth || 10`, `boundaries.maxWidth || Infinity`
MinWidthApplied == OrDefault(config.boundaries, "minWidth", DefaultMin)
MaxWidthApplied == OrDefault(config.boundaries, "maxWidth", Infinity)
MinHeightApplied == OrDefault(config.boundaries, "minHeight", DefaultMin)
MaxHeightApplied == OrDefault(config.boundaries, "maxHeight", Infinity)

\* destroy() has run (it is the only operation that destroys the emitter)
Destroyed == ~emitterAlive

\* the operations that deliver a pointer move to the move handlers only
MoveOps ==
    { << "onDragMove" >>, << "onResizeMove" >>,
      << "onDragMove", "onResizeMove" >>, << "onResizeMove", "onDragMove" >> }

\* C1, as stated: for every raw state and every configuration the resolved width lies in
\* [minWidth ?? 10, maxWidth ?? Infinity] and the resolved height in
\* [minHeight ?? 10, maxHeight ?? Infinity].
C1_ResolvedWithinBoundaries ==
    /\ Resolved.width >= NullishDefault(config.boundaries, "minWidth", DefaultMin)
    /\ Resolved.width <= NullishDefault(config.boundaries, "maxWidth", Infinity)
    /\ Resolved.height >= NullishDefault(config.boundaries, "minHeight", DefaultMin)
    /\ Resolved.height <= NullishDefault(config.boundaries, "maxHeight", Infinity)

\* C2, as stated: after any setState call the state getState() returns has its width and
\* height within the configured minimum and maximum.
C2_GetStateWithinBoundaries ==
    lastOp = << "setState" >> =>
        /\ getState(World).width >= MinWidthApplied
        /\ getState(World).width <= MaxWidthApplied
        /\ getState(World).height >= MinHeightApplied
        /\ getState(World).height <= MaxHeightApplied

\* C3: in pinned mode onDragStart leaves x, y, width and height unchanged, does not start
\* a drag (no Dragging, no document listener, no start snapshot) and delivers no dragStart.
C3_PinnedDragStartRejected ==
    [][(lastOp' = << "onDragStart" >> /\ reactiveState.mode = "pinned") =>
          /\ reactiveState' = reactiveState
          /\ isDragging' = isDragging
          /\ startState' = startState
          /\ docListeners' = docListeners
          /\ style' = style
          /\ emitted' = << >>]_vars

\* C3, witness: onDragStart was called on an idle manager in pinned mode
C3_Witness ==
    /\ lastOp = << "onDragStart" >>
    /\ reactiveState.mode = "pinned"
    /\ ~isDragging
    /\ ~isResizing
    /\ docListeners = << >>

\* C4, as stated: isDragging and isResizing are never both true.
C4_OneGestureAtATime == ~(isDragging /\ isResizing)

\* C5: a dragMove of a drag whose direction is horizontal leaves y at the y of the snapshot
\* taken at dragStart, and dragEnd does not change y.
C5_HorizontalDragKeepsY ==
    [][/\ (lastOp' = << "onDragMove" >> /\ isDragging
             /\ reactiveState.draggingDirection = "horizontal") =>
              (reactiveState'.y = startState.y /\ startState' = startState)
       /\ lastOp' = << "onDragEnd" >> => reactiveState'.y = reactiveState.y]_vars

\* C5, witness: a horizontal drag was moved by a pointer that moved on both axes
C5_Witness ==
    /\ lastOp = << "onDragMove" >>
    /\ isDragging
    /\ reactiveState.mode = "smooth"
    /\ reactiveState.draggingDirection = "horizontal"
    /\ reactiveState.x # startState.x
    /\ reactiveState.y = startState.y

\* C6: a resizeMove of a resize with direction se leaves x and y equal to the x and y of
\* the snapshot taken at resizeStart.
C6_SeResizeKeepsPosition ==
    [][(lastOp' = << "onResizeMove" >> /\ isResizing /\ resizeDirection = "se") =>
          /\ reactiveState'.x = startState.x
          /\ reactiveState'.y = startState.y
          /\ startState' = startState]_vars

\* C6, witness: an se resize changed the width and the height
C6_Witness ==
    /\ lastOp = << "onResizeMove" >>
    /\ isResizing
    /\ resizeDirection = "se"
    /\ reactiveState.width # startState.width
    /\ reactiveState.height # startState.height
    /\ reactiveState.x = startState.x
    /\ reactiveState.y = startState.y

\* C7, as stated: after a resizeMove of a resize with direction nw that started from a
\* state shown as it was stored, the bottom-right corner of the geometry applied to the
\* element is where it was at resizeStart.
C7_NwKeepsOppositeCorner ==
    (/\ lastOp = << "onResizeMove" >>
     /\ isResizing
     /\ resizeDirection = "nw"
     /\ effectActive
     /\ constrainedState(startState, config, viewport, parentRect) = startState) =>
        /\ style.left + style.width = startState.x + startState.width
        /\ style.top + style.height = startState.y + startState.height

\* C8, as stated: the resolver applied to its own output gives the same state (the
\* geometry applied to the element, written back with setState, is applied unchanged).
C8_ResolverIdempotent ==
    [][lastOp' = << "syncFromDom" >> => style' = style]_vars

\* C9, as stated: after destroy() no document-level listener of the manager is attached.
C9_DestroyDetachesDocumentListeners == Destroyed => docListeners = << >>

\* C10: after destroy(), a pointer move delivered to onDragMove or onResizeMove changes no
\* style of the element and delivers no lifecycle event.
C10_NoEffectAfterDestroy ==
    [][(Destroyed /\ lastOp' \in MoveOps) => (style' = style /\ emitted' = << >>)]_vars

\* C10, witness: after destroy() a move handler of a still active drag wrote the state,
\* which the element no longer shows
C10_Witness ==
    /\ Destroyed
    /\ lastOp \in MoveOps
    /\ isDragging
    /\ reactiveState.x # startState.x
    /\ style.left # Resolved.x
    /\ emitted = << >>

\* C11, as stated: after destroy() the persistence plugin's destroy() has run: no tracked
\* container entry refers to the destroyed manager and the auto-save effect is disposed.
C11_DestroyTearsDownPlugins ==
    Destroyed => (persistence.containers = << >> /\ ~persistence.autoSaveEffect)

\* C12, as stated: while a SnappingPlugin is installed the manager's own drag-start
\* listener is not bound on the drag handle, a pointer down starts only the plugin's drag
\* and a pointer move runs only the plugin's move handler.
C12_SnappingReplacesDefaultDrag ==
    "SnappingPlugin" \in installedPlugins =>
        /\ "mousedown" \notin handleListeners
        /\ "touchstart" \notin handleListeners
        /\ ~(isDragging /\ snapping.isActive)
        /\ "onDragMove" \notin Range(lastOp)

\* the snapping plugin handles moves of an active drag with snapping enabled
SnappingMoves ==
    snapping.manager /\ snapping.isActive /\ snapping.enabled /\ snapping.startState # << >>

\* multiples of the step a delta of the model can be written as
SnapMultiples == { k * snapping.snapStep : k \in -6..6 }

StoredRecord == getContainerState(persistence, ContainerId)

\* C20, as stated: with the persistence plugin installed under id k, when a dragEnd event
\* has been dispatched the record read back under k has the x, y, width and height of
\* getState().
C20_RecordMatchesStateAfterDragEnd ==
    ("dragEnd" \in Range(emitted) /\ persistence.bound) =>
        /\ StoredRecord # << >>
        /\ Geometry(StoredRecord[1]) = getState(World)

\* C20, amended: with the persistence plugin installed under id k with isDemo: true, when
\* a dragEnd event has been dispatched the record read back under k has the x, y, width
\* and height of getState().
C20_DemoRecordMatchesStateAfterDragEnd ==
    ("dragEnd" \in Range(emitted) /\ persistence.bound /\ persistence.isDemoContainer) =>
        /\ StoredRecord # << >>
        /\ Geometry(StoredRecord[1]) = getState(World)

\* C20, witness: a demo container was dragged away and the drag ended
C20_Witness ==
    /\ "dragEnd" \in Range(emitted)
    /\ persistence.bound
    /\ persistence.isDemoContainer
    /\ StoredRecord # << >>
    /\ Geometry(StoredRecord[1]) = getState(World)
    /\ getState(World) # InitialGeometry
    /\ getState(World) # startState

\* C18, as stated: when bringToFront() of manager A is followed by bringToFront() of
\* manager B, the z-index assigned to B's element is greater than the one assigned to A's.
C18_LaterFrontIsHigher ==
    (Len(frontLog) = 2 /\ frontLog[1] # frontLog[2]) =>
        zIndexOf[frontLog[2]] > zIndexOf[frontLog[1]]

\* C19, as stated: the ordering sequence contains the id of every live manager exactly
\* once and no id of a destroyed manager.
C19_SequenceHoldsLiveManagers ==
    \A uid \in Uids :
        /\ managers[uid] = "live" =>
              Cardinality({ i \in 1..Len(draggable) : draggable[i] = uid }) = 1
        /\ managers[uid] = "destroyed" => uid \notin Range(draggable)


\* the tolerance of a restored coordinate, in px
RoundingTolerance == 1

\* C16: when the 'undocked' completion of a container that was docked at a dragEnd and
\* undocked by the start of the next drag has been dispatched, the manager's x and y
\* are, within the rounding tolerance, the x and y it had just before it was docked
C16_UndockRestoresPosition ==
    \A c \in DockContainers :
        (/\ lastOp = << "dispatch", c, "undocked" >>
         /\ docking.parent[c] = "body"
         /\ ~docking.plugin[c].onUndocked)
        => /\ Abs(docking.state[c].x - docking.plugin[c].originalState.x) <= RoundingTolerance
           /\ Abs(docking.state[c].y - docking.plugin[c].originalState.y) <= RoundingTolerance

\* C17: a completion dispatch of a plugin instance that is pending and was triggered
\* several times ends only by firing: the one completion event is dispatched
C17_CoalescedDispatchFires ==
    [][\A c \in DockContainers :
          (/\ docking.plugin[c].timer # "none"
           /\ docking.plugin[c].triggers = 2
           /\ docking'.plugin[c].timer = "none")
          => lastOp' = << "dispatch", c, docking.plugin[c].timer >>]_vars


\* the edge an instance of the per-instance plugin has its container docked to, or "null"
DockedEdge(c) ==
    IF edgeDocking.dockedContainers[c] = << >> THEN "null"
    ELSE edgeDocking.dockedContainers[c][1].edge

DragMoveRan ==
    "onDragMove" \in Range(lastOp) \/ "snapping.onDragMove" \in Range(lastOp)

Queued == Range(closed.closedQueue)

\* C22: the queue holds no id twice and is ordered by the time of each id's last add;
\* popLastClosedContainer() on an empty queue returns null and leaves it empty, and
\* otherwise removes and returns the queued id that was added last.
C22_ClosedQueueIsLifo ==
    /\ [](\A i, j \in 1..Len(closed.closedQueue) :
            i < j => closed.addedAt[closed.closedQueue[i]] < closed.addedAt[closed.closedQueue[j]])
    /\ [][lastOp' = << "popLastClosedContainer" >> =>
            IF Queued = {}
            THEN closed'.returned = "null" /\ closed'.closedQueue = << >>
            ELSE /\ closed'.returned \in Queued
                 /\ \A id \in Queued : closed.addedAt[id] <= closed.addedAt[closed'.returned]
                 /\ closed'.closedQueue =
                        SelectSeq(closed.closedQueue, LAMBDA id : id # closed'.returned)]_vars

\* C22, witness: a pop returned an id from a queue that had seen a re-add or an
\* earlier pop, and another id is still queued
C22_Witness ==
    /\ lastOp = << "popLastClosedContainer" >>
    /\ closed.returned # "null"
    /\ closed.clock >= 3
    /\ Len(closed.closedQueue) = 1


\* C23: use() of a plugin that is in the installed set does not call its install: the
\* installed set, the plugins' state and the manager's state are as before.
C23_UseOfInstalledIsNoOp ==
    [][lastOp'[1] = "useInstalled" =>
          /\ installedPlugins' = installedPlugins
          /\ persistence' = [persistence EXCEPT !.writes = 0]
          /\ snapping' = snapping
          /\ reactiveState' = reactiveState
          /\ style' = style
          /\ handleListeners' = handleListeners
          /\ docListeners' = docListeners]_vars

\* C23, witness: both plugins were used a second time with other options and kept the
\* configuration of their installation
C23_Witness ==
    /\ lastOp[1] = "useInstalled"
    /\ installedPlugins = {"StatePersistencePlugin", "SnappingPlugin"}
    /\ snapping.snapStep = SnapStep
    /\ persistence.containerId = ContainerId

\* C24: a use() whose install throws returns without an exception, does not add the
\* plugin and keeps the installed set; a use() of another plugin that is not installed
\* adds that plugin.
C24_ThrowingInstallIsContained ==
    [][/\ lastOp' = << "useThrowing" >> =>
             /\ thrown' = << >>
             /\ "ThrowingPlugin" \notin installedPlugins'
             /\ installedPlugins' = installedPlugins
       /\ lastOp' = << "use" >> =>
             /\ thrown' = << >>
             /\ installedPlugins \subseteq installedPlugins'
             /\ installedPlugins' # installedPlugins]_vars

\* C24, witness: an install has thrown on a manager that has a plugin installed
C24_Witness ==
    /\ lastOp = << "useThrowing" >>
    /\ installedPlugins = {"SnappingPlugin"}
    /\ reactiveState.mode = "pinned"
    /\ thrown = << >>


\* C25: one setState call that changes several fields runs the DOM update at most once:
\* at most one stateChange is emitted (each run of domUpdateEffect writes the style and
\* emits one stateChange, so an earlier emission carries an intermediate state).
C25_SetStateEmitsAtMostOnce ==
    lastOp = << "setState" >> =>
        Len(SelectSeq(emitted, LAMBDA e : e = "stateChange")) <= 1


\* C26: a viewport correction that runs while a drag is in progress leaves the pointer
\* coordinates of the drag's start and the snapshot of the state at its start as they were.
C26_CorrectionKeepsDragStart ==
    [][(lastOp'[1] = "animationFrame" /\ isDragging) =>
          /\ startX' = startX
          /\ startY' = startY
          /\ startState' = startState
          /\ isDragging']_vars

\* C26, witness: a frame callback has moved the container back into the viewport during
\* a drag, away from the state the drag started in
C26_Witness ==
    /\ lastOp = << "animationFrame", TRUE >>
    /\ isDragging
    /\ "viewportResize" \in Range(emitted)
    /\ Geometry(reactiveState) # startState

\* C27: between two animation frames the viewport correction runs at most once and the
\* parent correction runs at most once.
C27_OneCorrectionPerFrame ==
    /\ observers.corrections.viewport <= 1
    /\ observers.corrections.parent <= 1


\* C28: a setBoundaries call with a minimum above the maximum raises an error and leaves
\* the configuration as it was: a call that returned without an error has left
\* boundaries whose minimum does not exceed their maximum.
C28_InvalidBoundariesRejected ==
    (lastOp = << "setBoundaries" >> /\ thrown = << >>) =>
        LET b == config.boundaries
        IN  /\ {"minWidth", "maxWidth"} \subseteq DOMAIN b => b.minWidth <= b.maxWidth
            /\ {"minHeight", "maxHeight"} \subseteq DOMAIN b => b.minHeight <= b.maxHeight


\* C29: a save whose write to the store throws skips the write and the exception does
\* not leave the save operation (saveState or saveAllContainers).
C29_WriteFailureIsContained ==
    /\ "saveState" \notin Range(thrown)
    /\ "saveAllContainers" \notin Range(thrown)


\* C30: with constrainToParent and a parent of non-zero width and height the resolved
\* state lies inside the parent: 0 <= x <= parentWidth - width, 0 <= y <= parentHeight -
\* height, 0 <= width <= parentWidth - x, 0 <= height <= parentHeight - y; with a parent
\* of zero width or height the parent step returns the state it is given.
C30_ResolvedInsideParent ==
    config.constrainToParent =>
        IF parentRect.width # 0 /\ parentRect.height # 0
        THEN /\ 0 <= Resolved.x /\ Resolved.x <= parentRect.width - Resolved.width
             /\ 0 <= Resolved.y /\ Resolved.y <= parentRect.height - Resolved.height
             /\ 0 <= Resolved.width /\ Resolved.width <= parentRect.width - Resolved.x
             /\ 0 <= Resolved.height /\ Resolved.height <= parentRect.height - Resolved.y
        ELSE constrainToParent(Geometry(reactiveState), parentRect) = Geometry(reactiveState)


\* C31: whenever the viewport constraint applies the applied x and y are not negative,
\* and a constrained size that fits in the viewport lies entirely inside it.
C31_AppliedInsideViewport ==
    shouldConstrainToViewport(config) =>
        /\ Resolved.x >= 0
        /\ Resolved.y >= 0
        /\ Resolved.width <= viewport.width => Resolved.x <= viewport.width - Resolved.width
        /\ Resolved.height <= viewport.height =>
               Resolved.y <= viewport.height - Resolved.height


\* C32: after any sequence of setState calls and configuration setters the geometry
\* applied to the element is the resolver's result for the current raw state under the
\* current configuration.
C32_AppliedIsResolved ==
    effectActive =>
        /\ style.left = Resolved.x
        /\ style.top = Resolved.y
        /\ style.width = Resolved.width
        /\ style.height = Resolved.height


\* C33: while the mode is pinned a dragMove leaves x, y, width and height as they were,
\* also when the mode became pinned during the drag.
C33_PinnedDragMoveChangesNothing ==
    [][(lastOp' = << "onDragMove" >> /\ reactiveState.mode = "pinned") =>
          Geometry(reactiveState') = Geometry(reactiveState)]_vars


\* C34: on the lifecycle bus every drag and dragEnd is emitted by a gesture that a
\* dragStart has opened and no dragEnd has closed yet, and every resize and resizeEnd by
\* a gesture that a resizeStart has opened and no resizeEnd has closed yet (isDragging
\* and isResizing are set where the start is emitted and cleared where the end is).
C34_GestureEventsAreBracketed ==
    [][/\ (Range(emitted') \cap {"drag", "dragEnd"} # {}) => isDragging
       /\ (Range(emitted') \cap {"resize", "resizeEnd"} # {}) => isResizing]_vars


\* the document-level listeners whose handler is one of hs, bound now or before
Attached(hs) ==
    { i \in 1..Len(docListeners) :
        \E h \in hs : docListeners[i][2] \in {h, BoundBefore[h]} }

\* C35: after dragEnd no document-level move or end listener of the drag is attached, and
\* after resizeEnd none of the resize, whatever the host called during the gesture.
C35_EndDetachesListeners ==
    /\ lastOp = << "onDragEnd" >> => Attached({"onDragMove", "onDragEnd"}) = {}
    /\ lastOp = << "onResizeEnd" >> => Attached({"onResizeMove", "onResizeEnd"}) = {}


\* C36: during a drag in smooth mode a dragMove stores the start snapshot's x and y plus
\* the pointer's distance from the start pointer on the unlocked axes, whatever moves came
\* before, and the geometry on the element is the one resolved from the state it stored.
C36_DragMoveIsStartPlusDelta ==
    \A e \in PointerEvents :
        (isDragging /\ reactiveState.mode = "smooth") =>
            LET w == onDragMove(World, e)
                direction == reactiveState.draggingDirection
                applied == constrainedState(Geometry(w.reactiveState), config, viewport,
                                            parentRect)
            IN  /\ w.reactiveState.x =
                       startState.x + (IF direction = "vertical" THEN 0
                                       ELSE e.clientX - startX)
                /\ w.reactiveState.y =
                       startState.y + (IF direction = "horizontal" THEN 0
                                       ELSE e.clientY - startY)
                /\ effectActive =>
                       /\ w.style.left = applied.x
                       /\ w.style.top = applied.y
                       /\ w.style.width = applied.width
                       /\ w.style.height = applied.height

\* C36, witness: a drag that started with the pointer at (150, 150) was moved, not for
\* the first time, and stands where the pointer at (0, 0) puts it
C36_Witness ==
    /\ lastOp = << "onDragMove" >>
    /\ isDragging
    /\ reactiveState.mode = "smooth"
    /\ reactiveState.draggingDirection = "all"
    /\ startX = 150
    /\ reactiveState.x = startState.x - 150
    /\ reactiveState.y = startState.y - 150


\* no timer of the docking pages is pending: neither a positioning timer of dock nor a
\* timer of handleDispatch
DockingQuiescent ==
    /\ docking.timers = << >>
    /\ \A c \in DockContainers : docking.plugin[c].setup = "none"

\* C37: no completion is lost: once every timer has fired, the `docked` closure of a
\* container registered for an edge has run, and the `undocked` closure of a container
\* that was docked and is no longer registered has run (and applied the undock state)
C37_NoCompletionIsLost ==
    DockingQuiescent =>
        \A c \in DockContainers :
            /\ getCurrentDockEdge(docking, c) # "null" => ~docking.plugin[c].onDocked
            /\ getCurrentDockEdge(docking, c) = "null" => ~docking.plugin[c].onUndocked


\* C38: a loadTemplate call for a registered template whose source keeps failing
\* invokes the source at most maxRetries + 1 times and resolves to the fallback after
\* exactly one onError call; a call for an unregistered name resolves to the fallback
\* after exactly one onError call and without invoking anything
C38_RetriesAreBounded ==
    \A p \in LoaderCalls :
        LET call == loader.call[p]
        IN  /\ call.name = "failing" =>
                  /\ call.invoked <= call.maxRetries + 1
                  /\ call.pc = "resolved" =>
                        (call.onError = 1 /\ call.result = "fallback")
            /\ call.name = "unregistered" =>
                  /\ call.invoked = 0
                  /\ call.pc = "resolved" =>
                        (call.onError = 1 /\ call.result = "fallback")


\* C39: a 'docked' or 'undocked' completion dispatched by the plugin of one container
\* leaves the state of every other container's manager as it was
C39_CompletionTouchesOnlyItsContainer ==
    [][\A c \in DockContainers :
          (/\ Len(lastOp') = 3
           /\ lastOp'[1] = "dispatch"
           /\ lastOp'[2] = c)
          => \A k \in DockContainers \ {c} : docking'.state[k] = docking.state[k]]_vars


\* C40: a container carries the docked marker and positioning only while it is
\* registered for an edge, also when a drag starts before the positioning timer of its
\* dock has run; and the undock of a drag start completes: it takes the container out
\* of the registry
C40_DockedOnlyWhileRegistered ==
    [][\A c \in DockContainers :
          /\ docking'.dataset[c] => getCurrentDockEdge(docking', c) # "null"
          /\ (/\ lastOp' = << "dragStart", c >>
              /\ getCurrentDockEdge(docking, c) # "null")
             => getCurrentDockEdge(docking', c) = "null"]_vars

====
